---- MODULE Spec2Model ----
(***************************************************************************)
(* Model of the marginal-ROAS optimizer (the module exporting              *)
(* optimizeSingleASIN and optimizePortfolio, src/unnamed/part_000).        *)
(*                                                                         *)
(* Numbers.  The program computes in IEEE-754 binary64.  The model keeps   *)
(* the representation (sign, mantissa, binary exponent, rounding after     *)
(* every operation, +-Infinity for a division by zero) and narrows the     *)
(* mantissa to MantBits bits: a number is <<m, e>> and stands for m * 2^e, *)
(* with m = 0 or 2^(MantBits-1) <= |m| < 2^MantBits.                       *)
(***************************************************************************)
EXTENDS Integers, Sequences, FiniteSets, TLC

MantBits == 12

\* ------------------------------------------------------------------------
\* Floating point kernel
\* ------------------------------------------------------------------------
RECURSIVE Pow2(_)
Pow2(n) == IF n = 0 THEN 1 ELSE 2 * Pow2(n - 1)

P2 == [n \in 0..30 |-> Pow2(n)]

MantLo == P2[MantBits - 1]
MantHi == P2[MantBits]

Abs(n) == IF n < 0 THEN -n ELSE n
Sgn(n) == IF n < 0 THEN -1 ELSE IF n = 0 THEN 0 ELSE 1
IMax(a, b) == IF a >= b THEN a ELSE b

\* number of bits of n, 0 < n < 2^31, known to lie in lo..hi
RECURSIVE BitLenIn(_, _, _)
BitLenIn(n, lo, hi) ==
  IF lo = hi THEN lo
  ELSE LET mid == (lo + hi) \div 2
       IN IF n >= P2[mid] THEN BitLenIn(n, mid + 1, hi) ELSE BitLenIn(n, lo, mid)

InfE == 100000
FZero == <<0, 0>>
FInf(s) == <<s, InfE>>

\* the magnitude a > 0 of L bits, times 2^e, rounded to MantBits bits (ties
\* away from zero), with sign s
Round(s, a, L, e) ==
  IF L <= MantBits
  THEN <<s * a * P2[MantBits - L], e - (MantBits - L)>>
  ELSE LET sh == L - MantBits
           r  == (a + P2[sh - 1]) \div P2[sh]
       IN IF r = MantHi THEN <<s * MantLo, e + sh + 1>> ELSE <<s * r, e + sh>>

\* the integer n times 2^e as a number
Norm(n, e) ==
  IF n = 0 THEN FZero
  ELSE IF n < 0 THEN Round(-1, -n, BitLenIn(-n, 1, 31), e)
  ELSE Round(1, n, BitLenIn(n, 1, 31), e)

FInt(n) == Norm(n, 0)

FNeg(a) == <<-a[1], a[2]>>

\* Math.abs
FAbs(a) == <<Abs(a[1]), a[2]>>

FMul(a, b) ==
  IF a[2] = InfE \/ b[2] = InfE
  THEN FInf(Sgn(a[1]) * Sgn(b[1]))
  ELSE LET p == a[1] * b[1]
       IN IF p = 0 THEN FZero
          ELSE IF p > 0
          THEN Round(1, p, IF p >= P2[2 * MantBits - 1] THEN 2 * MantBits
                                                        ELSE 2 * MantBits - 1,
                     a[2] + b[2])
          ELSE Round(-1, -p, IF -p >= P2[2 * MantBits - 1] THEN 2 * MantBits
                                                           ELSE 2 * MantBits - 1,
                     a[2] + b[2])

FDiv(a, b) ==
  IF a[2] = InfE THEN FInf(Sgn(a[1]) * (IF b[1] < 0 THEN -1 ELSE 1))
  ELSE IF b[2] = InfE THEN FZero
  ELSE IF b[1] = 0 THEN FInf(IF a[1] < 0 THEN -1 ELSE 1)
  ELSE IF a[1] = 0 THEN FZero
  ELSE LET q == (Abs(a[1]) * P2[30 - MantBits]) \div Abs(b[1])
       IN Round(Sgn(a[1]) * Sgn(b[1]), q,
                IF q >= P2[30 - MantBits] THEN 31 - MantBits ELSE 30 - MantBits,
                a[2] - b[2] - (30 - MantBits))

FAdd(a, b) ==
  IF a[2] = InfE THEN a
  ELSE IF b[2] = InfE THEN b
  ELSE IF a[1] = 0 THEN b
  ELSE IF b[1] = 0 THEN a
  ELSE IF a[2] >= b[2]
       THEN (IF a[2] - b[2] > MantBits + 1 THEN a
             ELSE Norm(a[1] * P2[a[2] - b[2]] + b[1], b[2]))
       ELSE (IF b[2] - a[2] > MantBits + 1 THEN b
             ELSE Norm(b[1] * P2[b[2] - a[2]] + a[1], a[2]))

FSub(a, b) == FAdd(a, FNeg(b))

FCmp(a, b) ==
  IF a = b THEN 0
  ELSE IF a[1] > 0 /\ b[1] <= 0 THEN 1
  ELSE IF a[1] < 0 /\ b[1] >= 0 THEN -1
  ELSE IF a[1] = 0 THEN -Sgn(b[1])
  ELSE IF a[2] # b[2] THEN (IF (a[2] > b[2]) = (a[1] > 0) THEN 1 ELSE -1)
  ELSE IF a[1] > b[1] THEN 1 ELSE -1
FLt(a, b) == FCmp(a, b) < 0
FLe(a, b) == FCmp(a, b) <= 0
FGt(a, b) == FCmp(a, b) > 0
FGe(a, b) == FCmp(a, b) >= 0
FMax(a, b) == IF FGe(a, b) THEN a ELSE b
FMin(a, b) == IF FLe(a, b) THEN a ELSE b

\* the decimal literal n/d of the source text
FRat(n, d) == FDiv(FInt(n), FInt(d))
FOne == FInt(1)
FTwo == FInt(2)

\* Math.round: the nearest integer, halves upwards
FRound(a) ==
  IF a[2] >= 0 THEN a[1] * P2[a[2]]
  ELSE IF -a[2] > MantBits + 1 THEN 0
  ELSE (a[1] + P2[-a[2] - 1]) \div P2[-a[2]]

\* the fractional bits of log2(z / 2^14), 2^14 <= z < 2^15, most significant
\* first, by repeated squaring
RECURSIVE LogFrac(_, _, _)
LogFrac(z, k, acc) ==
  IF k = 0 THEN acc
  ELSE LET s == (z * z) \div P2[14]
       IN IF s >= P2[15] THEN LogFrac(s \div 2, k - 1, 2 * acc + 1)
                         ELSE LogFrac(s, k - 1, 2 * acc)

\* log2 of the mantissa MantLo + i, MantBits fractional bits
Log2Tab == [i \in 0..(MantLo - 1) |-> LogFrac((MantLo + i) * P2[15 - MantBits], MantBits, 0)]

\* log2 of a finite x > 0, as an integer with MantBits fractional bits
Log2Fix(x) == (x[2] + MantBits - 1) * MantHi + Log2Tab[x[1] - MantLo]

\* 2^(2^-k), k = 1.., scaled by 2^15
Root2 == <<46341, 38968, 35734, 34219, 33486, 33125, 32946, 32857,
           32812, 32790, 32779, 32774, 32771, 32769, 32769>>

RECURSIVE ExpFrac(_, _, _)
ExpFrac(f, k, z) ==
  IF k > MantBits THEN z
  ELSE IF (f \div P2[MantBits - k]) % 2 = 1
       THEN ExpFrac(f, k + 1, (z * Root2[k]) \div P2[15])
       ELSE ExpFrac(f, k + 1, z)

\* 2^(f / 2^MantBits), 0 <= f < 2^MantBits, scaled by 2^14
Exp2Tab == [f \in 0..(MantHi - 1) |-> ExpFrac(f, 1, P2[14])]

\* 2^(t / 2^MantBits)
Exp2Fix(t) == Round(1, Exp2Tab[t % MantHi], 15, (t \div MantHi) - 14)

\* Math.pow(x, y) for x >= 0
FPow(x, y) ==
  IF y[1] = 0 THEN FOne
  ELSE IF x[1] = 0 THEN (IF y[1] > 0 THEN FZero ELSE FInf(1))
  ELSE IF x[2] = InfE THEN (IF y[1] > 0 THEN FInf(1) ELSE FZero)
  ELSE IF y = FOne THEN x
  ELSE IF y = FTwo THEN FMul(x, x)
  ELSE IF y[2] >= 0 THEN Exp2Fix(Log2Fix(x) * y[1] * P2[y[2]])
  ELSE Exp2Fix((Log2Fix(x) * y[1]) \div P2[-y[2]])

\* ------------------------------------------------------------------------
\* Hill model (part_000 lines 3-24)
\* ------------------------------------------------------------------------
Tiny == FRat(1, 1000000000)

HillParams(alpha, gamma, K) == [alpha |-> alpha, gamma |-> gamma, K |-> K]

hillY(x, params) ==
  LET ratio   == FDiv(x, FMax(params.K, Tiny))
      powered == FPow(ratio, params.gamma)
  IN FDiv(FMul(params.alpha, powered), FAdd(FOne, powered))

hillDY(x, params) ==
  LET ratio       == FDiv(x, FMax(params.K, Tiny))
      powered     == FPow(ratio, FMax(params.gamma, Tiny))
      numerator   == FMul(FMul(params.alpha, params.gamma),
                          FPow(ratio, FSub(params.gamma, FOne)))
      denominator == FMul(params.K, FPow(FAdd(FOne, powered), FTwo))
  IN IF FGt(denominator, FZero) THEN FDiv(numerator, denominator) ELSE FZero

\* ------------------------------------------------------------------------
\* findOptimalSpend (part_000 lines 163-224)
\* ------------------------------------------------------------------------
samples == 512
iterations == 60

marginalROAS(spend, params, seasonalFactor) ==
  FMul(hillDY(spend, params), seasonalFactor)

\* one pass of the sampling loop body, lines 178-183, on peak = <<peakSpend, peakMROAS>>
PeakStep(i, peak, params, maxSpend, seasonalFactor) ==
  LET spend == FMul(FDiv(FInt(i), FInt(samples)), maxSpend)
      mroas == marginalROAS(spend, params, seasonalFactor)
  IN IF FGt(mroas, peak[2]) THEN <<spend, mroas>> ELSE peak

\* the sampling loop, lines 177-184, for i = from..to in increasing order
\* (split in halves, the first half evaluated before the second, to keep the
\* evaluation shallow)
RECURSIVE PeakScan(_, _, _, _, _, _)
PeakScan(from, to, peak, params, maxSpend, seasonalFactor) ==
  IF from > to THEN peak
  ELSE IF from = to THEN PeakStep(from, peak, params, maxSpend, seasonalFactor)
  ELSE LET half == (from + to) \div 2
           left == PeakScan(from, half, peak, params, maxSpend, seasonalFactor)
       IN IF left = peak
          THEN PeakScan(half + 1, to, peak, params, maxSpend, seasonalFactor)
          ELSE PeakScan(half + 1, to, left, params, maxSpend, seasonalFactor)

\* the bisection loop, lines 202-211: <<low, high>> after iterations i..59
RECURSIVE Bisect(_, _, _, _, _, _)
Bisect(i, low, high, targetMROAS, params, seasonalFactor) ==
  IF i >= iterations THEN <<low, high>>
  ELSE LET mid   == FDiv(FAdd(low, high), FInt(2))
           mroas == marginalROAS(mid, params, seasonalFactor)
       IN IF FGe(mroas, targetMROAS)
          THEN Bisect(i + 1, mid, high, targetMROAS, params, seasonalFactor)
          ELSE Bisect(i + 1, low, mid, targetMROAS, params, seasonalFactor)

\* the infeasible result, had it reported the return at the sampled peak
infeasibleResultAtPeak(peakMROAS) ==
  [optimalSpend |-> FZero, expectedRevenue |-> FZero, mRoas |-> peakMROAS,
   totalRoas |-> peakMROAS, feasible |-> FALSE]

\* lines 188-194
infeasibleResult(peakMROAS) ==
  [optimalSpend |-> FZero, expectedRevenue |-> FZero, mRoas |-> peakMROAS,
   totalRoas |-> FZero, feasible |-> FALSE]

\* the feasible result, had line 215 divided by the spend itself
feasibleResultUnfloored(optimalSpend, expectedRevenue, params, seasonalFactor) ==
  [optimalSpend |-> optimalSpend, expectedRevenue |-> expectedRevenue,
   mRoas |-> marginalROAS(optimalSpend, params, seasonalFactor),
   totalRoas |-> FDiv(expectedRevenue, optimalSpend),
   feasible |-> TRUE]

\* lines 215-223
feasibleResult(optimalSpend, expectedRevenue, params, seasonalFactor) ==
  [optimalSpend |-> optimalSpend, expectedRevenue |-> expectedRevenue,
   mRoas |-> marginalROAS(optimalSpend, params, seasonalFactor),
   totalRoas |-> FDiv(expectedRevenue, FMax(optimalSpend, FOne)),
   feasible |-> TRUE]

\* lines 213-214
resultAt(optimalSpend, params, seasonalFactor) ==
  feasibleResult(optimalSpend, FMul(hillY(optimalSpend, params), seasonalFactor),
                 params, seasonalFactor)

\* lines 186-213, peak = <<peakSpend, peakMROAS>>
resultFromPeak(peak, targetMROAS, params, maxSpend, seasonalFactor) ==
  IF FLt(peak[2], targetMROAS)
  THEN infeasibleResult(peak[2])
  ELSE resultAt(Bisect(0, peak[1], maxSpend, targetMROAS, params, seasonalFactor)[1],
                params, seasonalFactor)

findOptimalSpend(targetMROAS, params, maxSpend, seasonalFactor) ==
  resultFromPeak(PeakScan(0, samples, <<FZero, FInf(-1)>>, params, maxSpend,
                          seasonalFactor),
                 targetMROAS, params, maxSpend, seasonalFactor)

\* ------------------------------------------------------------------------
\* Observations (ROASData, ROASOptimizer.tsx lines 11-19)
\* ------------------------------------------------------------------------
\* An absent optional field (undefined) and an absent date.
Undef == "undefined"

\* A date string 'YYYY-MM-DD' is the triple <<year, month, day>>: zero padded,
\* so that the order of the strings is the order of the triples.
DateLess(d1, d2) ==
  \/ d1[1] < d2[1]
  \/ d1[1] = d2[1] /\ d1[2] < d2[2]
  \/ d1[1] = d2[1] /\ d1[2] = d2[2] /\ d1[3] < d2[3]

\* a.date.localeCompare(b.date) < 0, both dates present
localeCompareLess(a, b) == DateLess(a.date, b.date)

\* [...data].sort((a, b) => a.date.localeCompare(b.date)): the comparator reads
\* a.date of every element it is handed as a; an insertion sort hands it every
\* element but the first.  Reading localeCompare of undefined is a TypeError.
SortThrows(data) == \E i \in 2..Len(data) : data[i].date = Undef

\* the message of that TypeError
NoLocaleCompare == "Cannot read properties of undefined (reading 'localeCompare')"

\* stable insertion of row into the sorted sequence s
RECURSIVE InsertByDate(_, _)
InsertByDate(s, row) ==
  IF s = <<>> THEN <<row>>
  ELSE IF localeCompareLess(row, s[Len(s)])
       THEN Append(InsertByDate(SubSeq(s, 1, Len(s) - 1), row), s[Len(s)])
       ELSE Append(s, row)

\* the copy left in the order given
SortByDateAsGiven(data) == data

RECURSIVE SortByDate(_)
SortByDate(data) ==
  IF data = <<>> THEN <<>>
  ELSE InsertByDate(SortByDate(SubSeq(data, 1, Len(data) - 1)), data[Len(data)])

\* days from 1970-01-01 to the date (proleptic Gregorian calendar)
DaysFromCivil(d) ==
  LET y   == IF d[2] <= 2 THEN d[1] - 1 ELSE d[1]
      era == y \div 400
      yoe == y - era * 400
      mp  == (d[2] + 9) % 12
      doy == (153 * mp + 2) \div 5 + d[3] - 1
      doe == yoe * 365 + yoe \div 4 - yoe \div 100 + doy
  IN era * 146097 + doe - 719468

\* new Date('YYYY-MM-DD') is midnight UTC of that day; getDay() and getMonth()
\* read it in the host's time zone: tz = -1 west of UTC, where local time is
\* still the evening before, tz = 0 at UTC and tz = 1 east of it.
getDay(date, tz) == (DaysFromCivil(date) + (IF tz < 0 THEN -1 ELSE 0) + 4) % 7

getMonth(date, tz) ==
  IF tz < 0 /\ date[3] = 1
  THEN (IF date[2] = 1 THEN 11 ELSE date[2] - 2)
  ELSE date[2] - 1

\* ------------------------------------------------------------------------
\* adjustForSeasonality (part_000 lines 32-86)
\* ------------------------------------------------------------------------
SeasonKey(row, mode, tz) ==
  IF mode = "weekly" THEN getDay(row.date, tz) ELSE getMonth(row.date, tz)

RECURSIVE FSum(_)
FSum(s) == IF s = <<>> THEN FZero
           ELSE FAdd(FSum(SubSeq(s, 1, Len(s) - 1)), s[Len(s)])

\* factors[key], lines 60-67, for a key of the data
SeasonFactor(data, mode, tz, key) ==
  LET all        == [i \in 1..Len(data) |-> data[i].ad_sales]
      inGroup(r) == SeasonKey(r, mode, tz) = key
      group      == SelectSeq(data, inGroup)
      sum        == FSum([i \in 1..Len(group) |-> group[i].ad_sales])
      overallAvg == FDiv(FSum(all), FInt(IMax(Len(data), 1)))
      groupAvg   == FDiv(sum, FInt(IMax(Len(group), 1)))
  IN IF FGt(groupAvg, FZero) THEN FDiv(groupAvg, overallAvg) ELSE FOne

\* factors[key] || 1
FactorOr1(f) == IF f[1] = 0 THEN FOne ELSE f

adjustForSeasonality(data, mode, tz) ==
  IF mode = "none"
  THEN [adjusted |-> [i \in 1..Len(data) |-> data[i].ad_sales], currentFactor |-> FOne]
  ELSE [adjusted |->
          [i \in 1..Len(data) |->
             FDiv(data[i].ad_sales,
                  FactorOr1(SeasonFactor(data, mode, tz, SeasonKey(data[i], mode, tz))))],
        currentFactor |->
          FactorOr1(SeasonFactor(data, mode, tz, SeasonKey(data[Len(data)], mode, tz)))]

\* d.ad_sales_adj || d.ad_sales (lines 247, 339)
revenueArray(data, adjusted) ==
  [i \in 1..Len(data) |-> IF adjusted[i][1] = 0 THEN data[i].ad_sales ELSE adjusted[i]]

spendArray(data) == [i \in 1..Len(data) |-> data[i].spend]

\* ------------------------------------------------------------------------
\* generateRecencyWeights (part_000 lines 89-101)
\* ------------------------------------------------------------------------
\* generateRecencyWeights with the exponent 4 * recencyFactor
generateRecencyWeightsFlatAtZero(n, recencyFactor) ==
  LET exponent == FMul(FInt(4), recencyFactor)
      weights  == [i \in 1..n |-> FPow(FDiv(FInt(i), FInt(n)), exponent)]
      sum      == FSum(weights)
  IN [i \in 1..n |-> FDiv(FMul(weights[i], FInt(n)), sum)]

generateRecencyWeights(n, recencyFactor) ==
  LET exponent == FAdd(FOne, FMul(FInt(4), recencyFactor))
      weights  == [i \in 1..n |-> FPow(FDiv(FInt(i), FInt(n)), exponent)]
      sum      == FSum(weights)
  IN [i \in 1..n |-> FDiv(FMul(weights[i], FInt(n)), sum)]

\* ------------------------------------------------------------------------
\* fitHillModel (part_000 lines 104-146)
\* ------------------------------------------------------------------------
RECURSIVE FMaxSeq(_, _)
FMaxSeq(s, least) == IF s = <<>> THEN least
                     ELSE FMax(FMaxSeq(SubSeq(s, 1, Len(s) - 1), least), s[Len(s)])

alphaMultipliers == <<FRat(105, 100), FRat(11, 10), FRat(12, 10)>>
gammas == <<FRat(11, 10), FRat(13, 10), FRat(16, 10), FInt(2), FRat(25, 10)>>
KMultipliers == <<FRat(25, 100), FRat(5, 10), FRat(75, 100), FInt(1), FRat(15, 10)>>
GridSize == Len(alphaMultipliers) * Len(gammas) * Len(KMultipliers)

\* the k-th combination of the grid, k = 0.., alpha outermost and K innermost
GridParams(k, maxRevenue, maxSpend) ==
  HillParams(FMul(alphaMultipliers[(k \div (Len(gammas) * Len(KMultipliers))) + 1],
                  maxRevenue),
             gammas[((k \div Len(KMultipliers)) % Len(gammas)) + 1],
             FMul(KMultipliers[(k % Len(KMultipliers)) + 1], maxSpend))

\* lines 125-133; weights = <<>> stands for the omitted argument
RECURSIVE SSE(_, _, _, _, _)
SSE(i, spend, revenue, weights, params) ==
  IF i = 0 THEN FZero
  ELSE LET predicted == hillY(spend[i], params)
           error     == FSub(predicted, revenue[i])
           weight    == IF weights = <<>> THEN FOne ELSE weights[i]
       IN FAdd(SSE(i - 1, spend, revenue, weights, params),
               FMul(FMul(weight, error), error))

\* FitScan taking a combination whose sum is not greater than the best
RECURSIVE FitScanTiesToLast(_, _, _, _, _, _, _, _)
FitScanTiesToLast(from, to, best, spend, revenue, weights, maxRevenue, maxSpend) ==
  IF from > to THEN best
  ELSE IF from = to
  THEN LET params == GridParams(from, maxRevenue, maxSpend)
           sse    == SSE(Len(spend), spend, revenue, weights, params)
       IN IF FLe(sse, best[2]) THEN <<params, sse>> ELSE best
  ELSE LET half == (from + to) \div 2
           left == FitScanTiesToLast(from, half, best, spend, revenue, weights,
                                     maxRevenue, maxSpend)
       IN IF left = best
          THEN FitScanTiesToLast(half + 1, to, best, spend, revenue, weights,
                                 maxRevenue, maxSpend)
          ELSE FitScanTiesToLast(half + 1, to, left, spend, revenue, weights,
                                 maxRevenue, maxSpend)

\* best = <<bestParams, bestSSE>> after the combinations from..to, in order
RECURSIVE FitScan(_, _, _, _, _, _, _, _)
FitScan(from, to, best, spend, revenue, weights, maxRevenue, maxSpend) ==
  IF from > to THEN best
  ELSE IF from = to
  THEN LET params == GridParams(from, maxRevenue, maxSpend)
           sse    == SSE(Len(spend), spend, revenue, weights, params)
       IN IF FLt(sse, best[2]) THEN <<params, sse>> ELSE best
  ELSE LET half == (from + to) \div 2
           left == FitScan(from, half, best, spend, revenue, weights, maxRevenue, maxSpend)
       IN IF left = best
          THEN FitScan(half + 1, to, best, spend, revenue, weights, maxRevenue, maxSpend)
          ELSE FitScan(half + 1, to, left, spend, revenue, weights, maxRevenue, maxSpend)

\* evaluated: the number of combinations evaluated before a deadline check
\* (lines 121, 140, 142) first sees more than 8000 ms elapsed; GridSize when
\* none does.  The clock is monotonic, so once one check fires the two outer
\* checks fire as well and the loops end.
fitHillModel(spend, revenue, weights, evaluated) ==
  LET maxRevenue == FMaxSeq(revenue, FInf(-1))
      maxSpend   == FMaxSeq(spend, FOne)
      initial    == HillParams(FMul(alphaMultipliers[1], maxRevenue), gammas[3],
                               FMul(KMultipliers[3], maxSpend))
  IN FitScan(0, evaluated - 1, <<initial, FInf(1)>>, spend, revenue, weights,
             maxRevenue, maxSpend)[1]

\* ------------------------------------------------------------------------
\* autoBound (part_000 lines 149-160)
\* ------------------------------------------------------------------------
expansions == 32

RECURSIVE Expand(_, _, _, _, _, _)
Expand(i, hi, hiMax, params, required, factorNow) ==
  IF i < expansions /\ FGt(FMul(hillDY(hi, params), factorNow), required) /\ FLt(hi, hiMax)
  THEN Expand(i + 1, FMul(hi, FRat(18, 10)), hiMax, params, required, factorNow)
  ELSE hi

autoBound(X, params, required, factorNow) ==
  LET maxHist == FMaxSeq(X, FOne)
      hi      == FMax(FMax(FMul(FTwo, maxHist), FMul(FInt(4), params.K)), FOne)
      hiMax   == FMax(FMul(FInt(50), maxHist), FMul(FInt(20), params.K))
  IN FMin(Expand(0, hi, hiMax, params, required, factorNow), hiMax)

\* ------------------------------------------------------------------------
\* optimizeSingleASIN (part_000 lines 227-271)
\* ------------------------------------------------------------------------
\* The environment of a run: env.tz is the host's time zone (see getDay) and
\* env.evaluated the number of grid combinations each curve fit evaluates
\* before its deadline fires (see fitHillModel).

Threw(message) == [threw |-> TRUE, message |-> message]
Returned(value) == [threw |-> FALSE, value |-> value]

\* lines 236-237
targetOf(marginSettings) ==
  FDiv(FOne, FDiv(marginSettings.contributionMargin, FInt(100)))

\* lines 239-251: the fitted curve of the sorted data
singleFit(sortedData, settings, env) ==
  LET adj     == adjustForSeasonality(sortedData, settings.seasonality, env.tz)
      spend   == spendArray(sortedData)
      revenue == revenueArray(sortedData, adj.adjusted)
      weights == generateRecencyWeights(Len(sortedData), settings.recency)
  IN [params |-> fitHillModel(spend, revenue, weights, env.evaluated),
      currentFactor |-> adj.currentFactor,
      spend |-> spend]

\* lines 257-270, had they capped the optimal spend by settings.maxSpend
withCurrentCapped(results, params, currentFactor, settings) ==
  [results EXCEPT !.optimalSpend = FMin(@, settings.maxSpend)]

\* lines 257-270
withCurrent(results, params, currentFactor, settings) ==
  IF FGt(settings.currentSpend, FZero)
  THEN LET currentRevenue == FMul(hillY(settings.currentSpend, params), currentFactor)
           currentMROAS   == FMul(hillDY(settings.currentSpend, params), currentFactor)
       IN [optimalSpend |-> results.optimalSpend,
           expectedRevenue |-> results.expectedRevenue,
           mRoas |-> results.mRoas,
           totalRoas |-> results.totalRoas,
           feasible |-> results.feasible,
           currentMROAS |-> currentMROAS,
           deltaSpend |-> FSub(results.optimalSpend, settings.currentSpend),
           liftVsCurrent |-> FSub(results.expectedRevenue, currentRevenue)]
  ELSE results

\* lines 254-270, on the fitted curve
singleFromFit(fit, targetMROAS, settings) ==
  withCurrent(findOptimalSpend(targetMROAS, fit.params,
                               autoBound(fit.spend, fit.params, targetMROAS,
                                         fit.currentFactor),
                               fit.currentFactor),
              fit.params, fit.currentFactor, settings)

optimizeSingleRun(data, marginSettings, settings, env) ==
  IF Len(data) < 3 THEN Threw("At least 3 data points required")
  ELSE IF SortThrows(data) THEN Threw(NoLocaleCompare)
  ELSE Returned(singleFromFit(singleFit(SortByDate(data), settings, env),
                              targetOf(marginSettings), settings))

\* ------------------------------------------------------------------------
\* optimizePortfolio (part_000 lines 274-381)
\* ------------------------------------------------------------------------
\* An entity id (row.asin) is the sequence of its characters, or Undef.
IdB01 == <<"B", "0", "1">>
Id7 == <<"7">>
Id12 == <<"1", "2">>
IdConstructor == <<"c", "o", "n", "s", "t", "r", "u", "c", "t", "o", "r">>
\* 'UNKNOWN', line 283
IdUnknown == <<"U", "N", "K", "N", "O", "W", "N">>

\* row.asin || 'UNKNOWN' (line 283): undefined and '' are falsy
keyOf(row) == IF row.asin = Undef \/ row.asin = <<>> THEN IdUnknown ELSE row.asin

\* Property names every object inherits from Object.prototype: asinGroups is
\* an object literal (line 280), so asinGroups[name] is the inherited value,
\* which is truthy and has no push.
ProtoKeys ==
  {IdConstructor,
   <<"t", "o", "S", "t", "r", "i", "n", "g">>,
   <<"v", "a", "l", "u", "e", "O", "f">>,
   <<"_", "_", "p", "r", "o", "t", "o", "_", "_">>}

\* asinGroups is the sequence of its own properties [key, rows] in insertion
\* order.
HasOwn(groups, key) == \E i \in 1..Len(groups) : groups[i].key = key

\* asinGroups[asin].push(row) for an own property
PushRow(groups, key, row) ==
  [i \in 1..Len(groups) |->
     IF groups[i].key = key
     THEN [key |-> key, rows |-> Append(groups[i].rows, row)]
     ELSE groups[i]]

\* Object.entries (line 293) lists the keys that are array indices first, in
\* ascending numeric order, then the other keys in insertion order.
Digits == <<"0", "1", "2", "3", "4", "5", "6", "7", "8", "9">>
IsDigit(c) == \E d \in 1..Len(Digits) : Digits[d] = c
DigitValue(c) == CHOOSE d \in 0..9 : Digits[d + 1] = c

\* a < b for digit strings of one length
RECURSIVE DigitsLess(_, _)
DigitsLess(a, b) ==
  IF a = <<>> THEN FALSE
  ELSE IF a[1] = b[1] THEN DigitsLess(Tail(a), Tail(b))
  ELSE DigitValue(a[1]) < DigitValue(b[1])

\* a < b for canonical digit strings
IndexLess(a, b) == Len(a) < Len(b) \/ (Len(a) = Len(b) /\ DigitsLess(a, b))

\* the largest array index, 2^32 - 2
MaxArrayIndex == <<"4", "2", "9", "4", "9", "6", "7", "2", "9", "4">>

IsArrayIndex(key) ==
  /\ Len(key) >= 1
  /\ \A i \in 1..Len(key) : IsDigit(key[i])
  /\ Len(key) = 1 \/ key[1] # "0"
  /\ ~IndexLess(MaxArrayIndex, key)

RECURSIVE InsertByIndex(_, _)
InsertByIndex(s, entry) ==
  IF s = <<>> THEN <<entry>>
  ELSE IF IndexLess(entry.key, s[Len(s)].key)
       THEN Append(InsertByIndex(SubSeq(s, 1, Len(s) - 1), entry), s[Len(s)])
       ELSE Append(s, entry)

RECURSIVE SortByIndex(_)
SortByIndex(s) ==
  IF s = <<>> THEN <<>>
  ELSE InsertByIndex(SortByIndex(SubSeq(s, 1, Len(s) - 1)), s[Len(s)])

ObjectEntries(groups) ==
  LET indexed(g) == IsArrayIndex(g.key)
      named(g)   == ~IsArrayIndex(g.key)
  IN SortByIndex(SelectSeq(groups, indexed)) \o SelectSeq(groups, named)

\* a JavaScript value is truthy: here, a number other than 0 that is present
Truthy(v) == v # Undef /\ v[1] # 0

\* lines 311-313
cmOf(firstRow, marginSettings) ==
  IF Truthy(firstRow.gross_margin) /\ Truthy(firstRow.required_net)
  THEN FDiv(FSub(firstRow.gross_margin, firstRow.required_net), FInt(100))
  ELSE FDiv(marginSettings.contributionMargin, FInt(100))

\* lines 324-328
asinMarginsOf(marginSettings, cm) ==
  [grossMargin |-> marginSettings.grossMargin,
   requiredNet |-> marginSettings.requiredNet,
   contributionMargin |-> FMul(cm, FInt(100)),
   requiredMROAS |-> FDiv(FOne, cm)]

\* x.toFixed(digits) for digits 1 and 2, as the integer x * 10^digits rounded
\* to the nearest, halves away from zero: '11.0' is 110 and '9.09' is 909
toFixed(x, digits) ==
  Sgn(x[1]) * FRound(FMul(FAbs(x), FInt(IF digits = 1 THEN 10 ELSE 100)))

\* lines 298-302
insufficientRow(asin) ==
  [asin |-> asin, action |-> "Insufficient data (< 3 points)", feasible |-> FALSE]

\* lines 316-320
nonPositiveRow(asin) ==
  [asin |-> asin, action |-> "Non-positive contribution margin", feasible |-> FALSE]

\* lines 372-376
errorRow(asin, message) ==
  [asin |-> asin, action |-> "Error: " \o message, feasible |-> FALSE]

\* lines 344-349; null is Undef
organicShareOf(sortedAsinData) ==
  LET counted(d)    == d.total_sales # Undef
      withTotal     == SelectSeq(sortedAsinData, counted)
      totalSalesSum == FSum([i \in 1..Len(withTotal) |-> withTotal[i].total_sales])
      adSalesSum    == FSum([i \in 1..Len(sortedAsinData) |-> sortedAsinData[i].ad_sales])
  IN IF FGt(totalSalesSum, FZero)
     THEN FMul(FDiv(FSub(totalSalesSum, adSalesSum), totalSalesSum), FInt(100))
     ELSE Undef

\* lines 335-341: the curve fitted again, without weights
refit(sortedAsinData, settings, env) ==
  fitHillModel(spendArray(sortedAsinData),
               revenueArray(sortedAsinData,
                            adjustForSeasonality(sortedAsinData, settings.seasonality,
                                                 env.tz).adjusted),
               <<>>, env.evaluated)

\* lines 351-369; the em dash of line 366 is written "-"
resultRow(asin, cm, asinResults, currentSpend, currentRevenue, organicShare) ==
  [asin |-> asin,
   contributionMargin |-> toFixed(FMul(cm, FInt(100)), 1),
   requiredMROAS |-> toFixed(FDiv(FOne, cm), 2),
   optimalSpend |-> FRound(asinResults.optimalSpend),
   expectedAdSales |-> FRound(asinResults.expectedRevenue),
   totalROAS |-> toFixed(asinResults.totalRoas, 2),
   mROAS |-> toFixed(asinResults.mRoas, 2),
   currentSpend |-> FRound(currentSpend),
   deltaSpend |-> FRound(FSub(asinResults.optimalSpend, currentSpend)),
   liftVsCurrent |-> FRound(FSub(asinResults.expectedRevenue, currentRevenue)),
   organicShare |-> IF organicShare = Undef THEN "-" ELSE toFixed(organicShare, 1),
   action |-> IF asinResults.feasible
              THEN (IF FGt(asinResults.optimalSpend, currentSpend)
                    THEN "Increase" ELSE "Decrease")
              ELSE "Pause (no feasible solution)",
   feasible |-> asinResults.feasible]

\* lines 331-369, had line 332 read the spend of the earliest observation
rowOfRunFromEarliest(asin, sortedAsinData, cm, run, settings, env) ==
  IF run.threw THEN errorRow(asin, run.message)
  ELSE resultRow(asin, cm, run.value,
                 sortedAsinData[1].spend,
                 hillY(sortedAsinData[1].spend, refit(sortedAsinData, settings, env)),
                 organicShareOf(sortedAsinData))

\* lines 331-369, on what optimizeSingleASIN returned or threw
rowOfRun(asin, sortedAsinData, cm, run, settings, env) ==
  IF run.threw THEN errorRow(asin, run.message)
  ELSE resultRow(asin, cm, run.value,
                 sortedAsinData[Len(sortedAsinData)].spend,
                 hillY(sortedAsinData[Len(sortedAsinData)].spend,
                       refit(sortedAsinData, settings, env)),
                 organicShareOf(sortedAsinData))

\* lines 315-369
rowOfMargin(asin, sortedAsinData, cm, marginSettings, settings, env) ==
  IF FLe(cm, FZero) THEN nonPositiveRow(asin)
  ELSE rowOfRun(asin, sortedAsinData, cm,
                optimizeSingleRun(sortedAsinData, asinMarginsOf(marginSettings, cm),
                                  settings, env),
                settings, env)

\* lines 310-369
rowOfSorted(asin, sortedAsinData, marginSettings, settings, env) ==
  rowOfMargin(asin, sortedAsinData, cmOf(sortedAsinData[1], marginSettings),
              marginSettings, settings, env)

\* one iteration of the loop of line 293: what it pushes for [asin, asinData]
portfolioRow(asin, asinData, marginSettings, settings, env) ==
  IF Len(asinData) < 3 THEN insufficientRow(asin)
  ELSE IF SortThrows(asinData) THEN errorRow(asin, NoLocaleCompare)
  ELSE rowOfSorted(asin, SortByDate(asinData), marginSettings, settings, env)

\* ------------------------------------------------------------------------
\* Inputs of the bounded model
\* ------------------------------------------------------------------------
Obs(asin, date, spend, ad_sales, total_sales, gross_margin, required_net) ==
  [asin |-> asin, date |-> date, spend |-> spend, ad_sales |-> ad_sales,
   total_sales |-> total_sales, gross_margin |-> gross_margin,
   required_net |-> required_net]

\* a single-mode observation: date, spend, ad_sales
Obs3(day, spend, ad_sales) ==
  Obs(Undef, <<2025, 8, day>>, spend, ad_sales, Undef, Undef, Undef)

\* updateMarginSettings (ROASOptimizer.tsx lines 91-97) on the two inputs
MarginOf(grossMargin, requiredNet) ==
  LET cm == FDiv(FSub(FInt(grossMargin), FInt(requiredNet)), FInt(100))
  IN [grossMargin |-> FInt(grossMargin), requiredNet |-> FInt(requiredNet),
      contributionMargin |-> FMul(cm, FInt(100)),
      requiredMROAS |-> IF FGt(cm, FZero) THEN FDiv(FOne, cm) ELSE FZero]

\* the series of the spec's scenario, given out of date order
SeriesScenario ==
  <<Obs3(2, FInt(400), FInt(3000)), Obs3(1, FInt(300), FInt(2600)),
    Obs3(3, FInt(500), FInt(3300))>>
\* spends below one dollar
SeriesCents ==
  <<Obs3(1, FRat(2, 10), FInt(2)), Obs3(2, FRat(5, 10), FInt(4)), Obs3(3, FInt(1), FInt(5))>>
\* a return per dollar so high that the search bound stops at its ceiling
SeriesSteep ==
  <<Obs3(1, FInt(1), FInt(5000000)), Obs3(2, FInt(1), FInt(5000000)),
    Obs3(3, FInt(1), FInt(5000000))>>
\* a return per dollar too low for an 11% margin
SeriesFlat ==
  <<Obs3(4, FInt(300), FInt(200)), Obs3(5, FInt(400), FInt(250)),
    Obs3(6, FInt(500), FInt(300)), Obs3(7, FInt(600), FInt(320))>>
\* no ad revenue at all
SeriesZero ==
  <<Obs3(1, FInt(10), FZero), Obs3(2, FInt(20), FZero), Obs3(3, FInt(30), FZero)>>
\* too short for optimizeSingleASIN
SeriesShort == <<Obs3(1, FInt(300), FInt(2600)), Obs3(2, FInt(400), FInt(3000))>>

SingleSeries ==
  {SeriesScenario, SeriesCents, SeriesSteep, SeriesFlat, SeriesZero, SeriesShort}

\* contribution margins 11%, 0% and -11%
SingleMargins == {MarginOf(25, 14), MarginOf(14, 14), MarginOf(14, 25)}

SettingsOf(currentSpend, seasonality, recency) ==
  [currentSpend |-> currentSpend, maxSpend |-> FInt(3000),
   seasonality |-> seasonality, recency |-> recency]

SingleSettings ==
  {SettingsOf(c, m, FRat(3, 10)) : c \in {FZero, FInt(400)}, m \in {"none", "weekly"}}

\* the deadline of fitHillModel fires after its first combination, or never
Envs == {[tz |-> 0, evaluated |-> e] : e \in {1, GridSize}}

\* ------------------------------------------------------------------------
\* State
\* ------------------------------------------------------------------------
VARIABLES
  data,            \* the observations handed to the call
  marginSettings,  \* the margin configuration handed to the call
  settings,        \* the run settings handed to the call
  env,             \* the host: time zone and curve-fit deadline
  pc,              \* the position of the call
  targetMROAS,     \* optimizeSingleASIN, findOptimalSpend: targetMROAS
  sortedData,      \* optimizeSingleASIN: sortedData
  fit,             \* optimizeSingleASIN: params, currentFactor, spendArray
  maxSearchSpend,  \* optimizeSingleASIN: maxSearchSpend; findOptimalSpend: maxSpend
  peak,            \* findOptimalSpend: <<peakSpend, peakMROAS>>
  results,         \* what findOptimalSpend returned; optimizePortfolio: results
  asinGroups,      \* optimizePortfolio: asinGroups, keys in insertion order
  entries,         \* optimizePortfolio: Object.entries(asinGroups)
  cursor,          \* optimizePortfolio: the next row, then the next entry
  out,             \* what the call returned, or that it threw
  mode,            \* ROASOptimizer: mode, 'single' or 'portfolio'
  rawData,         \* DataUpload: the rows last handed to parseAndProcessData
  calculating,     \* SettingsPanel: isCalculating
  shown,           \* ROASOptimizer: results, portfolioResults and error
  search           \* the locals of a loop in progress: fitHillModel's grid loops
                   \* and their clock, autoBound's expansion,
                   \* findOptimalSpend's bisection

vars == <<data, marginSettings, settings, env, pc, targetMROAS, sortedData, fit,
          maxSearchSpend, peak, results, asinGroups, entries, cursor, out, mode,
          rawData, calculating, shown, search>>

inputs == <<data, marginSettings, settings, env>>

\* the locals of optimizeSingleASIN ahead of findOptimalSpend
singleLocals == <<sortedData, fit, maxSearchSpend>>

\* the locals of optimizePortfolio
portfolioLocals == <<asinGroups, entries, cursor>>

\* the state of the page around the optimizer
panel == <<calculating, shown>>
app == <<mode, rawData, panel, search>>

None == "none"

\* ------------------------------------------------------------------------
\* optimizeSingleASIN, step by step (part_000 lines 227-271)
\* ------------------------------------------------------------------------
InitSingle ==
  /\ data \in SingleSeries
  /\ marginSettings \in SingleMargins
  /\ settings \in SingleSettings
  /\ env \in Envs
  /\ pc = "start"
  /\ targetMROAS = None
  /\ sortedData = None
  /\ fit = None
  /\ maxSearchSpend = None
  /\ peak = None
  /\ results = None
  /\ asinGroups = None
  /\ entries = None
  /\ cursor = None
  /\ out = None
  /\ mode = None
  /\ rawData = None
  /\ calculating = None
  /\ shown = None
  /\ search = None

\* lines 232-237
SingleValidate ==
  /\ pc = "start"
  /\ IF Len(data) < 3
     THEN /\ out' = Threw("At least 3 data points required")
          /\ pc' = "threw"
          /\ targetMROAS' = targetMROAS
     ELSE /\ out' = out
          /\ pc' = "validated"
          /\ targetMROAS' = targetOf(marginSettings)
  /\ UNCHANGED <<app, inputs, singleLocals, peak, results, portfolioLocals>>

\* lines 239-240, had line 240 sorted data itself: data.sort(...)
SingleSortInPlace ==
  /\ pc = "validated"
  /\ IF SortThrows(data)
     THEN /\ out' = Threw(NoLocaleCompare)
          /\ pc' = "threw"
          /\ UNCHANGED <<data, sortedData>>
     ELSE /\ data' = SortByDate(data)
          /\ sortedData' = SortByDate(data)
          /\ pc' = "sorted"
          /\ out' = out
  /\ UNCHANGED <<app, marginSettings, settings, env, targetMROAS, fit, maxSearchSpend,
                 peak, results, portfolioLocals>>

\* lines 239-240
SingleSort ==
  /\ pc = "validated"
  /\ IF SortThrows(data)
     THEN /\ out' = Threw(NoLocaleCompare)
          /\ pc' = "threw"
          /\ sortedData' = sortedData
     ELSE /\ sortedData' = SortByDate(data)
          /\ pc' = "sorted"
          /\ out' = out
  /\ UNCHANGED <<app, inputs, targetMROAS, fit, maxSearchSpend, peak, results,
                 portfolioLocals>>

\* lines 242-251
SingleFit ==
  /\ pc = "sorted"
  /\ fit' = singleFit(sortedData, settings, env)
  /\ pc' = "fitted"
  /\ UNCHANGED <<app, inputs, targetMROAS, sortedData, maxSearchSpend, peak, results,
                 portfolioLocals, out>>

\* line 254
SingleBound ==
  /\ pc = "fitted"
  /\ maxSearchSpend' = autoBound(fit.spend, fit.params, targetMROAS, fit.currentFactor)
  /\ pc' = "bounded"
  /\ UNCHANGED <<app, inputs, targetMROAS, sortedData, fit, peak, results,
                 portfolioLocals, out>>

\* findOptimalSpend lines 172-184: the sampled peak
FindPeak ==
  /\ pc = "bounded"
  /\ peak' = PeakScan(0, samples, <<FZero, FInf(-1)>>, fit.params, maxSearchSpend,
                      fit.currentFactor)
  /\ pc' = "peaked"
  /\ UNCHANGED <<app, inputs, targetMROAS, singleLocals, results, portfolioLocals, out>>

\* findOptimalSpend lines 186-224: the feasibility check, the bisection and
\* the result
FindRoot ==
  /\ pc = "peaked"
  /\ results' = resultFromPeak(peak, targetMROAS, fit.params, maxSearchSpend,
                               fit.currentFactor)
  /\ pc' = "optimized"
  /\ UNCHANGED <<app, inputs, targetMROAS, singleLocals, peak, portfolioLocals, out>>

\* lines 257-270
SingleReturn ==
  /\ pc = "optimized"
  /\ out' = Returned(withCurrent(results, fit.params, fit.currentFactor, settings))
  /\ pc' = "done"
  /\ UNCHANGED <<app, inputs, targetMROAS, singleLocals, peak, results, portfolioLocals>>

NextSingle ==
  \/ SingleValidate
  \/ SingleSort
  \/ SingleFit
  \/ SingleBound
  \/ FindPeak
  \/ FindRoot
  \/ SingleReturn

SpecSingle == InitSingle /\ [][NextSingle]_vars

\* ------------------------------------------------------------------------
\* optimizeSingleASIN on hosts in different time zones
\* ------------------------------------------------------------------------
\* four days across the end of a month
SeriesMonthEnd ==
  <<Obs(Undef, <<2025, 7, 30>>, FInt(300), FInt(2600), Undef, Undef, Undef),
    Obs(Undef, <<2025, 7, 31>>, FInt(400), FInt(3000), Undef, Undef, Undef),
    Obs(Undef, <<2025, 8, 1>>, FInt(500), FInt(3300), Undef, Undef, Undef),
    Obs(Undef, <<2025, 8, 2>>, FInt(450), FInt(2900), Undef, Undef, Undef)>>

HostSeries == {SeriesScenario, SeriesMonthEnd}

HostSettings ==
  {SettingsOf(c, m, FRat(3, 10)) :
     c \in {FZero, FInt(400)}, m \in {"none", "weekly", "monthly"}}

\* hosts west of UTC, at UTC and east of it; the deadline fires or not
HostEnvs == {[tz |-> t, evaluated |-> e] : t \in {-1, 0, 1}, e \in {1, GridSize}}

InitHost ==
  /\ data \in HostSeries
  /\ marginSettings = MarginOf(25, 14)
  /\ settings \in HostSettings
  /\ env \in HostEnvs
  /\ pc = "start"
  /\ targetMROAS = None
  /\ sortedData = None
  /\ fit = None
  /\ maxSearchSpend = None
  /\ peak = None
  /\ results = None
  /\ asinGroups = None
  /\ entries = None
  /\ cursor = None
  /\ out = None
  /\ mode = None
  /\ rawData = None
  /\ calculating = None
  /\ shown = None
  /\ search = None

SpecHost == InitHost /\ [][NextSingle]_vars

\* ------------------------------------------------------------------------
\* The margin configuration of the page (ROASOptimizer.tsx lines 55-60 and
\* 91-97, MarginConfig lines 12-15)
\* ------------------------------------------------------------------------
\* useState of lines 55-60
InitialMarginSettings ==
  [grossMargin |-> FInt(25), requiredNet |-> FInt(14),
   contributionMargin |-> FInt(11), requiredMROAS |-> FRat(909, 100)]

\* what can be typed into a margin field: the empty text is Undef, any other
\* text is the number parseFloat reads from it
MarginTexts ==
  <<Undef, FZero, FInt(5), FInt(10), FInt(14), FRat(145, 10), FInt(20), FInt(25),
    FRat(253, 10), FInt(30), FRat(305, 10), FInt(50), FInt(100)>>

\* parseFloat(value) || 0, line 13 of MarginConfig: NaN becomes 0
parseFloatOr0(value) == IF value = Undef THEN FZero ELSE value

\* updateMarginSettings({ [field]: numValue }) on the configuration current
updateMarginSettings(current, field, numValue) ==
  LET grossMargin == IF field = "grossMargin" THEN numValue ELSE current.grossMargin
      requiredNet == IF field = "requiredNet" THEN numValue ELSE current.requiredNet
      cm          == FDiv(FSub(grossMargin, requiredNet), FInt(100))
  IN [grossMargin |-> grossMargin, requiredNet |-> requiredNet,
      contributionMargin |-> FMul(cm, FInt(100)),
      requiredMROAS |-> IF FGt(cm, FZero) THEN FDiv(FOne, cm) ELSE FZero]

InitMargin ==
  /\ marginSettings = InitialMarginSettings
  /\ pc = "editing"
  /\ data = None
  /\ settings = None
  /\ env = None
  /\ targetMROAS = None
  /\ sortedData = None
  /\ fit = None
  /\ maxSearchSpend = None
  /\ peak = None
  /\ results = None
  /\ asinGroups = None
  /\ entries = None
  /\ cursor = None
  /\ out = None
  /\ mode = None
  /\ rawData = None
  /\ calculating = None
  /\ shown = None
  /\ search = None

\* handleChange('grossMargin', value)
EditGrossMargin ==
  /\ pc = "editing"
  /\ \E t \in 1..Len(MarginTexts) :
        marginSettings' = updateMarginSettings(marginSettings, "grossMargin",
                                               parseFloatOr0(MarginTexts[t]))
  /\ UNCHANGED <<app, data, settings, env, pc, targetMROAS, singleLocals, peak, results,
                 portfolioLocals, out>>

\* handleChange('requiredNet', value)
EditRequiredNet ==
  /\ pc = "editing"
  /\ \E t \in 1..Len(MarginTexts) :
        marginSettings' = updateMarginSettings(marginSettings, "requiredNet",
                                               parseFloatOr0(MarginTexts[t]))
  /\ UNCHANGED <<app, data, settings, env, pc, targetMROAS, singleLocals, peak, results,
                 portfolioLocals, out>>

NextMargin ==
  \/ EditGrossMargin
  \/ EditRequiredNet

SpecMargin == InitMargin /\ [][NextMargin]_vars

\* ------------------------------------------------------------------------
\* Ingestion (DataUpload.tsx lines 72-160) and the page around it
\* (ROASOptimizer.tsx lines 53-54 and 78-89, SettingsPanel.tsx lines 49-84)
\* ------------------------------------------------------------------------
\* A raw row is what the CSV parser hands over, its header names normalised:
\* asin is the text of the cell (its characters), or Undef when the table has
\* no such column; date is the text of the cell, [form, ymd], written
\* 'YYYY-MM-DD' (form "iso") or 'M/D/YYYY' (form "us"); a numeric cell is the
\* number its text reads as, or Undef when the text is empty.
RawRow(asin, form, ymd, spend, ad_sales, total_sales, gross_margin, required_net) ==
  [asin |-> asin, date |-> [form |-> form, ymd |-> ymd], spend |-> spend,
   ad_sales |-> ad_sales, total_sales |-> total_sales, gross_margin |-> gross_margin,
   required_net |-> required_net]

\* coerceDateYMD, lines 82-93: both forms build new Date(year, month - 1, day),
\* midnight in the host's time zone, and toISOString() gives the date of
\* that instant in UTC: east of UTC (tz = 1) it is the day before.
coerceDateYMD(value, tz) ==
  LET y    == value.ymd[1]
      m    == value.ymd[2]
      d    == value.ymd[3]
      leap == (y % 4 = 0 /\ y % 100 # 0) \/ y % 400 = 0
      daysIn == <<31, IF leap THEN 29 ELSE 28, 31, 30, 31, 30, 31, 31, 30, 31, 30, 31>>
  IN IF tz <= 0 THEN value.ymd
     ELSE IF d > 1 THEN <<y, m, d - 1>>
     ELSE IF m > 1 THEN <<y, m - 1, daysIn[m - 1]>>
     ELSE <<y - 1, 12, 31>>

\* toNumber, lines 97-103: an empty cell is 0
toNumber(value) == IF value = Undef THEN FZero ELSE value

\* String(row.asin || '').trim(), lines 136 and 141
trimmedAsin(row) ==
  LET text == IF row.asin = Undef THEN <<>> ELSE row.asin
      inked == {i \in 1..Len(text) : text[i] # " "}
  IN IF inked = {} THEN <<>>
     ELSE SubSeq(text, CHOOSE i \in inked : \A j \in inked : i <= j,
                 CHOOSE i \in inked : \A j \in inked : i >= j)

\* the key of lines 135-137: asin and date in portfolio mode, the date otherwise
aggregationKey(row, rowMode, tz) ==
  <<IF rowMode = "portfolio" THEN trimmedAsin(row) ELSE <<>>, coerceDateYMD(row.date, tz)>>

\* lines 139-154 for one row; map is the Map as its entries in insertion
\* order. A cell is truthy when its text is not empty.
aggregateRow(map, row, rowMode, tz) ==
  LET key     == aggregationKey(row, rowMode, tz)
      created == [key |-> key,
                  value |-> Obs(IF rowMode = "portfolio" THEN key[1] ELSE Undef, key[2],
                                FZero, FZero, FZero,
                                IF row.gross_margin # Undef
                                THEN toNumber(row.gross_margin) ELSE Undef,
                                IF row.required_net # Undef
                                THEN toNumber(row.required_net) ELSE Undef)]
      withKey == IF \E i \in 1..Len(map) : map[i].key = key
                 THEN map ELSE Append(map, created)
  IN [i \in 1..Len(withKey) |->
        IF withKey[i].key = key
        THEN [withKey[i] EXCEPT
                !.value.spend = FAdd(@, toNumber(row.spend)),
                !.value.ad_sales = FAdd(@, toNumber(row.ad_sales)),
                !.value.total_sales =
                   IF row.total_sales # Undef THEN FAdd(@, toNumber(row.total_sales)) ELSE @]
        ELSE withKey[i]]

\* the loop of lines 134-155 over the first n rows
RECURSIVE aggregatedMap(_, _, _, _)
aggregatedMap(rows, n, rowMode, tz) ==
  IF n = 0 THEN <<>>
  ELSE aggregateRow(aggregatedMap(rows, n - 1, rowMode, tz), rows[n], rowMode, tz)

\* lines 118-129: the message of the refusal, or None
refusalOf(rows, rowMode) ==
  IF Len(rows) = 0 THEN "No data found"
  ELSE IF rowMode = "portfolio" /\ rows[1].asin = Undef
  THEN "Missing required columns: asin"
  ELSE None

\* lines 131-158: finalData
finalData(rows, rowMode, tz) ==
  LET map == aggregatedMap(rows, Len(rows), rowMode, tz)
  IN SortByDate([i \in 1..Len(map) |-> map[i].value])

\* the example of loadExample in single mode, out of order, with a row that
\* repeats a date in the other form and an empty total_sales cell
TableSingle ==
  <<RawRow(Undef, "iso", <<2025, 8, 1>>, FInt(300), FInt(2600), FInt(4200), Undef, Undef),
    RawRow(Undef, "iso", <<2025, 8, 3>>, FInt(500), FInt(3300), FInt(5200), Undef, Undef),
    RawRow(Undef, "iso", <<2025, 8, 2>>, FInt(400), FInt(3000), Undef, Undef, Undef),
    RawRow(Undef, "us", <<2025, 8, 1>>, FInt(50), FInt(400), FInt(600), Undef, Undef)>>

\* rows of loadExample in portfolio mode, with a row that repeats a key and
\* asin cells with blanks around the id
TablePortfolio ==
  <<RawRow(<<"A", "1">>, "iso", <<2025, 8, 2>>, FInt(400), FInt(3000), FInt(4700),
           FInt(25), FInt(14)),
    RawRow(<<" ", "A", "1">>, "iso", <<2025, 8, 1>>, FInt(300), FInt(2600), FInt(4200),
           FInt(25), FInt(14)),
    RawRow(<<"A", "2">>, "iso", <<2025, 8, 1>>, FInt(200), FInt(1600), FInt(2600),
           FInt(30), FInt(14)),
    RawRow(<<"A", "2">>, "iso", <<2025, 8, 2>>, FInt(260), FInt(1800), FInt(2900),
           FInt(30), FInt(14)),
    RawRow(<<"A", "1", " ">>, "us", <<2025, 8, 2>>, FInt(40), FInt(300), Undef,
           Undef, Undef)>>

\* one entity over the turn of a year
TableYearEnd ==
  <<RawRow(<<"B", "0", "1">>, "iso", <<2025, 1, 1>>, FInt(120), FInt(900), FZero, Undef, Undef),
    RawRow(<<"B", "0", "1">>, "iso", <<2024, 12, 31>>, FInt(100), FInt(800), FZero, Undef, Undef),
    RawRow(<<"B", "0", "1">>, "us", <<2024, 3, 1>>, FInt(90), FInt(700), FZero, Undef, Undef),
    RawRow(<<"B", "0", "1">>, "us", <<2025, 1, 1>>, FInt(30), FInt(200), FInt(500), Undef, Undef)>>

\* the tables a user can load; the last has no rows
Tables == <<TableSingle, TablePortfolio, TableYearEnd, <<>>>>

\* ROASOptimizer.tsx lines 67-70: the initial results, portfolioResults and
\* error
NothingShown == [results |-> None, portfolioResults |-> <<>>, error |-> None]

InitApp ==
  /\ mode = "single"
  /\ data = <<>>
  /\ rawData = <<>>
  /\ calculating = FALSE
  /\ shown = NothingShown
  /\ search = None
  /\ marginSettings = InitialMarginSettings
  /\ settings = SettingsOf(FZero, "none", FRat(3, 10))
  /\ env \in {[tz |-> t, evaluated |-> GridSize] : t \in {-1, 0, 1}}
  /\ pc = "idle"
  /\ targetMROAS = None
  /\ sortedData = None
  /\ fit = None
  /\ maxSearchSpend = None
  /\ peak = None
  /\ results = None
  /\ asinGroups = None
  /\ entries = None
  /\ cursor = None
  /\ out = None

\* between two handlers of the page
AtRest == pc \in {"idle", "ingested", "refused"}

\* parseAndProcessData(rawData), lines 105-160, in the current mode
Ingest ==
  /\ AtRest
  /\ \E t \in 1..Len(Tables) :
        /\ rawData' = Tables[t]
        /\ IF refusalOf(Tables[t], mode) # None
           THEN /\ out' = refusalOf(Tables[t], mode)
                /\ pc' = "refused"
                /\ data' = data
           ELSE /\ data' = finalData(Tables[t], mode, env.tz)
                /\ out' = None
                /\ pc' = "ingested"
  /\ UNCHANGED <<mode, panel, search, marginSettings, settings, env, targetMROAS,
                 singleLocals, peak, results, portfolioLocals>>

\* onModeChange = setMode (ROASOptimizer.tsx line 110)
SetMode ==
  /\ AtRest
  /\ mode' = IF mode = "single" THEN "portfolio" ELSE "single"
  /\ pc' = "idle"
  /\ UNCHANGED <<rawData, panel, search, inputs, targetMROAS, singleLocals, peak,
                 results, portfolioLocals, out>>

\* clearAll (ROASOptimizer.tsx lines 78-89)
ClearAll ==
  /\ AtRest
  /\ data' = <<>>
  /\ settings' = [settings EXCEPT !.currentSpend = FZero]
  /\ shown' = NothingShown
  /\ out' = None
  /\ pc' = "idle"
  /\ UNCHANGED <<mode, rawData, calculating, search, marginSettings, env, targetMROAS,
                 singleLocals, peak, results, portfolioLocals>>

\* runOptimization up to the call of the optimizer (SettingsPanel.tsx lines
\* 49-75): at pc = "running" the optimizer has been handed data
StartRun ==
  /\ AtRest
  /\ IF Len(data) = 0
     THEN out' = "Please provide data first" /\ pc' = "refused"
     ELSE IF FLe(marginSettings.contributionMargin, FZero)
     THEN out' = "Contribution margin must be positive" /\ pc' = "refused"
     ELSE IF mode = "single" /\ Len(data) < 3
     THEN /\ out' = "At least 3 data points required for single ASIN optimization"
          /\ pc' = "refused"
     ELSE out' = None /\ pc' = "running"
  /\ UNCHANGED <<app, inputs, targetMROAS, singleLocals, peak, results, portfolioLocals>>

\* the call has settled (SettingsPanel.tsx lines 71-83)
Settle ==
  /\ pc = "running"
  /\ pc' = "idle"
  /\ UNCHANGED <<app, inputs, targetMROAS, singleLocals, peak, results,
                 portfolioLocals, out>>

NextApp ==
  \/ Ingest
  \/ SetMode
  \/ ClearAll
  \/ StartRun
  \/ Settle

SpecApp == InitApp /\ [][NextApp]_vars

\* ------------------------------------------------------------------------
\* generateRecencyWeights on its own (part_000 lines 89-101, called at 248)
\* ------------------------------------------------------------------------
MaxPoints == 8

\* the recency settings of the slider (SettingsPanel.tsx), 0 and 1 included
RecencyFactors ==
  {FZero, FRat(1, 10), FRat(1, 4), FRat(3, 10), FRat(1, 2), FRat(3, 4), FOne}

\* n observations on consecutive days
DailySeries(n) == [i \in 1..n |-> Obs3(i, FInt(100 * i), FInt(900 * i))]

InitWeights ==
  /\ \E n \in 1..MaxPoints : data = DailySeries(n)
  /\ \E f \in RecencyFactors : settings = SettingsOf(FZero, "none", f)
  /\ marginSettings = None
  /\ env = None
  /\ pc = "start"
  /\ mode = None
  /\ rawData = None
  /\ calculating = None
  /\ shown = None
  /\ search = None
  /\ targetMROAS = None
  /\ sortedData = None
  /\ fit = None
  /\ maxSearchSpend = None
  /\ peak = None
  /\ results = None
  /\ asinGroups = None
  /\ entries = None
  /\ cursor = None
  /\ out = None

\* line 248
Weigh ==
  /\ pc = "start"
  /\ out' = generateRecencyWeights(Len(data), settings.recency)
  /\ pc' = "weighed"
  /\ UNCHANGED <<app, inputs, targetMROAS, singleLocals, peak, results, portfolioLocals>>

SpecWeights == InitWeights /\ [][Weigh]_vars

\* ------------------------------------------------------------------------
\* fitHillModel, step by step against its clock (part_000 lines 104-146)
\* ------------------------------------------------------------------------
\* search holds the arguments and locals of the call: spend, revenue, weights,
\* maxRevenue, maxSpend, the loop positions a (alpha), g (gamma) and k (K),
\* best = <<bestParams, bestSSE>>, and late: performance.now() - startTime
\* has passed 8000.  The clock is monotonic (late never turns false).  For
\* the properties it also counts the combinations evaluated (count), the
\* deadline checks that saw the budget exceeded (observed), and the
\* evaluations that began in time and ended late (straddled).
FitSeries == {SeriesScenario, SeriesCents, SeriesZero}

InitFit ==
  /\ data \in FitSeries
  /\ sortedData = SortByDate(data)
  /\ marginSettings = MarginOf(25, 14)
  /\ settings = SettingsOf(FZero, "none", FRat(3, 10))
  /\ env = [tz |-> 0, evaluated |-> GridSize]
  /\ pc = "sorted"
  /\ targetMROAS = targetOf(marginSettings)
  /\ fit = None
  /\ maxSearchSpend = None
  /\ peak = None
  /\ results = None
  /\ asinGroups = None
  /\ entries = None
  /\ cursor = None
  /\ out = None
  /\ mode = None
  /\ rawData = None
  /\ calculating = None
  /\ shown = None
  /\ search = None

FitUnchanged ==
  UNCHANGED <<mode, rawData, panel, inputs, targetMROAS, sortedData, maxSearchSpend, peak,
              results, portfolioLocals, out>>

\* lines 242-248 and 105-115, had bestParams begun at a gamma of 1.5
FitBeginOffGrid ==
  /\ pc = "sorted"
  /\ LET adj     == adjustForSeasonality(sortedData, settings.seasonality, env.tz)
         spend   == spendArray(sortedData)
         revenue == revenueArray(sortedData, adj.adjusted)
     IN search' =
          [spend |-> spend, revenue |-> revenue,
           weights |-> generateRecencyWeights(Len(sortedData), settings.recency),
           maxRevenue |-> FMaxSeq(revenue, FInf(-1)),
           maxSpend |-> FMaxSeq(spend, FOne),
           a |-> 1, g |-> 1, k |-> 1,
           best |-> <<HillParams(FMul(alphaMultipliers[1], FMaxSeq(revenue, FInf(-1))),
                                 FRat(3, 2),
                                 FMul(KMultipliers[3], FMaxSeq(spend, FOne))),
                      FInf(1)>>,
           late |-> FALSE, count |-> 0, observed |-> 0, straddled |-> 0]
  /\ pc' = "innerCheck"
  /\ fit' = fit
  /\ FitUnchanged

\* lines 242-248 and 105-115: the arguments, the grid, bestParams, bestSSE,
\* startTime
FitBegin ==
  /\ pc = "sorted"
  /\ LET adj     == adjustForSeasonality(sortedData, settings.seasonality, env.tz)
         spend   == spendArray(sortedData)
         revenue == revenueArray(sortedData, adj.adjusted)
     IN search' =
          [spend |-> spend, revenue |-> revenue,
           weights |-> generateRecencyWeights(Len(sortedData), settings.recency),
           maxRevenue |-> FMaxSeq(revenue, FInf(-1)),
           maxSpend |-> FMaxSeq(spend, FOne),
           a |-> 1, g |-> 1, k |-> 1,
           best |-> <<HillParams(FMul(alphaMultipliers[1], FMaxSeq(revenue, FInf(-1))),
                                 gammas[3],
                                 FMul(KMultipliers[3], FMaxSeq(spend, FOne))),
                      FInf(1)>>,
           late |-> FALSE, count |-> 0, observed |-> 0, straddled |-> 0]
  /\ pc' = "innerCheck"
  /\ fit' = fit
  /\ FitUnchanged

\* the clock passes startTime + 8000 while the call is in its loops
Elapse ==
  /\ pc \in {"innerCheck", "evaluating", "middleCheck", "outerCheck"}
  /\ ~search.late
  /\ search' = [search EXCEPT !.late = TRUE]
  /\ UNCHANGED <<pc, fit>>
  /\ FitUnchanged

\* lines 119-123: the check at the head of the K loop body
InnerCheck ==
  /\ pc = "innerCheck"
  /\ IF search.late
     THEN /\ search' = [search EXCEPT !.observed = @ + 1]
          /\ pc' = "middleCheck"
     ELSE /\ search' = search
          /\ pc' = "evaluating"
  /\ fit' = fit
  /\ FitUnchanged

\* lines 125-138: one combination, then the next K
Evaluate ==
  /\ pc = "evaluating"
  /\ LET index  == (search.a - 1) * Len(gammas) * Len(KMultipliers)
                   + (search.g - 1) * Len(KMultipliers) + (search.k - 1)
         params == GridParams(index, search.maxRevenue, search.maxSpend)
         sse    == SSE(Len(search.spend), search.spend, search.revenue, search.weights,
                       params)
     IN search' = [search EXCEPT
                     !.best = IF FLt(sse, @[2]) THEN <<params, sse>> ELSE @,
                     !.k = @ + 1,
                     !.count = @ + 1,
                     !.straddled = IF search.late THEN @ + 1 ELSE @]
  /\ pc' = IF search.k = Len(KMultipliers) THEN "middleCheck" ELSE "innerCheck"
  /\ fit' = fit
  /\ FitUnchanged

\* the gamma loop without the check of line 140
MiddleCheckAbsent ==
  /\ pc = "middleCheck"
  /\ search' = [search EXCEPT !.g = @ + 1, !.k = 1]
  /\ pc' = IF search.g = Len(gammas) THEN "outerCheck" ELSE "innerCheck"
  /\ fit' = fit
  /\ FitUnchanged

\* line 140, then the next gamma
MiddleCheck ==
  /\ pc = "middleCheck"
  /\ IF search.late
     THEN /\ search' = [search EXCEPT !.observed = @ + 1]
          /\ pc' = "outerCheck"
     ELSE /\ search' = [search EXCEPT !.g = @ + 1, !.k = 1]
          /\ pc' = IF search.g = Len(gammas) THEN "outerCheck" ELSE "innerCheck"
  /\ fit' = fit
  /\ FitUnchanged

\* line 142, then the next alpha
OuterCheck ==
  /\ pc = "outerCheck"
  /\ IF search.late
     THEN /\ search' = [search EXCEPT !.observed = @ + 1]
          /\ pc' = "fitReturn"
     ELSE /\ search' = [search EXCEPT !.a = @ + 1, !.g = 1, !.k = 1]
          /\ pc' = IF search.a = Len(alphaMultipliers) THEN "fitReturn" ELSE "innerCheck"
  /\ fit' = fit
  /\ FitUnchanged

\* line 145, and line 251 of the caller
FitReturn ==
  /\ pc = "fitReturn"
  /\ fit' = [params |-> search.best[1],
             currentFactor |->
               adjustForSeasonality(sortedData, settings.seasonality, env.tz).currentFactor,
             spend |-> search.spend]
  /\ pc' = "fitted"
  /\ search' = search
  /\ FitUnchanged

NextFit ==
  \/ FitBegin
  \/ Elapse
  \/ InnerCheck
  \/ Evaluate
  \/ MiddleCheck
  \/ OuterCheck
  \/ FitReturn

SpecFit == InitFit /\ [][NextFit]_vars

\* ------------------------------------------------------------------------
\* optimizeSingleASIN up to its fit, on observations generated from a curve
\* ------------------------------------------------------------------------
\* the spends of the observations, in date order
GeneratorSpends == {<<FInt(300), FInt(400), FInt(500)>>, <<FInt(100), FInt(800), FInt(250)>>}

\* the revenue scales the curve is drawn at: alpha = alphaMultiplier * scale
GeneratorScales == {FZero, FInt(3000)}

\* observations whose ad_sales are hillY of their spend at combination k of
\* the grid for the given revenue scale and the largest of the spends
GeneratedSeries(k, scale, spends) ==
  [i \in 1..Len(spends) |->
     Obs3(i, spends[i], hillY(spends[i], GridParams(k, scale, FMaxSeq(spends, FOne))))]

InitRecover ==
  /\ \E k \in 0..(GridSize - 1), scale \in GeneratorScales, spends \in GeneratorSpends :
        data = GeneratedSeries(k, scale, spends)
  /\ marginSettings = MarginOf(25, 14)
  /\ settings = SettingsOf(FZero, "none", FRat(3, 10))
  /\ env = [tz |-> 0, evaluated |-> GridSize]
  /\ pc = "validated"
  /\ targetMROAS = targetOf(marginSettings)
  /\ sortedData = None
  /\ fit = None
  /\ maxSearchSpend = None
  /\ peak = None
  /\ results = None
  /\ asinGroups = None
  /\ entries = None
  /\ cursor = None
  /\ out = None
  /\ mode = None
  /\ rawData = None
  /\ calculating = None
  /\ shown = None
  /\ search = None

NextRecover ==
  \/ SingleSort
  \/ SingleFit

SpecRecover == InitRecover /\ [][NextRecover]_vars

\* ------------------------------------------------------------------------
\* autoBound, step by step (part_000 lines 149-160)
\* ------------------------------------------------------------------------
\* observed spends: below one dollar, the scenario's, one dollar
BoundSpends ==
  {<<FRat(2, 10), FRat(3, 10), FRat(5, 10)>>, <<FInt(300), FInt(400), FInt(500)>>,
   <<FOne, FOne, FOne>>}

\* curves with K = 0, K below and above the observed spends, and K so large
\* that 4 K and 20 K are the start and the ceiling
BoundCurves ==
  {HillParams(alpha, gamma, K) :
     alpha \in {FInt(3960), FInt(5250000)},
     gamma \in {gammas[1], gammas[4]},
     K \in {FZero, FRat(1, 4), FInt(125), FInt(5000)}}

\* required returns: of the margins 11% and -11%, and of a zero margin
BoundTargets == {FRat(100, 11), FNeg(FRat(100, 11)), FInf(1)}

InitBound ==
  /\ \E X \in BoundSpends, params \in BoundCurves :
        fit = [params |-> params, currentFactor |-> FOne, spend |-> X]
  /\ targetMROAS \in BoundTargets
  /\ pc = "fitted"
  /\ data = None
  /\ marginSettings = None
  /\ settings = None
  /\ env = None
  /\ sortedData = None
  /\ maxSearchSpend = None
  /\ peak = None
  /\ results = None
  /\ asinGroups = None
  /\ entries = None
  /\ cursor = None
  /\ out = None
  /\ mode = None
  /\ rawData = None
  /\ calculating = None
  /\ shown = None
  /\ search = None

BoundUnchanged ==
  UNCHANGED <<mode, rawData, panel, inputs, targetMROAS, sortedData, fit, peak, results,
              portfolioLocals, out>>

\* lines 150-154: maxHist, hi, hiMax, i = 0
BoundBegin ==
  /\ pc = "fitted"
  /\ LET maxHist == FMaxSeq(fit.spend, FOne)
         hi      == FMax(FMax(FMul(FTwo, maxHist), FMul(FInt(4), fit.params.K)), FOne)
     IN search' = [hi |-> hi,
                   hiMax |-> FMax(FMul(FInt(50), maxHist), FMul(FInt(20), fit.params.K)),
                   i |-> 0, start |-> hi]
  /\ pc' = "expanding"
  /\ maxSearchSpend' = maxSearchSpend
  /\ BoundUnchanged

\* the condition of the loop, line 156
Expanding ==
  /\ search.i < expansions
  /\ FGt(FMul(hillDY(search.hi, fit.params), fit.currentFactor), targetMROAS)
  /\ FLt(search.hi, search.hiMax)

\* the loop without the test against the ceiling
ExpandStepPastCeiling ==
  /\ pc = "expanding"
  /\ search.i < expansions
  /\ FGt(FMul(hillDY(search.hi, fit.params), fit.currentFactor), targetMROAS)
  /\ search' = [search EXCEPT !.hi = FMul(@, FRat(18, 10)), !.i = @ + 1]
  /\ UNCHANGED <<pc, maxSearchSpend>>
  /\ BoundUnchanged

\* lines 156-158: one pass of the loop
ExpandStep ==
  /\ pc = "expanding"
  /\ Expanding
  /\ search' = [search EXCEPT !.hi = FMul(@, FRat(18, 10)), !.i = @ + 1]
  /\ UNCHANGED <<pc, maxSearchSpend>>
  /\ BoundUnchanged

\* the return without the ceiling
BoundReturnUncapped ==
  /\ pc = "expanding"
  /\ ~Expanding
  /\ maxSearchSpend' = search.hi
  /\ pc' = "bounded"
  /\ search' = search
  /\ BoundUnchanged

\* line 159, and line 254 of the caller
BoundReturn ==
  /\ pc = "expanding"
  /\ ~Expanding
  /\ maxSearchSpend' = FMin(search.hi, search.hiMax)
  /\ pc' = "bounded"
  /\ search' = search
  /\ BoundUnchanged

NextBound ==
  \/ BoundBegin
  \/ ExpandStep
  \/ BoundReturn

SpecBound == InitBound /\ [][NextBound]_vars

\* ------------------------------------------------------------------------
\* optimizeSingleASIN on observations handed over in every order
\* ------------------------------------------------------------------------
\* the orders of n observations
Orders(n) == {p \in [1..n -> 1..n] : \A i, j \in 1..n : p[i] = p[j] => i = j}

\* the observations d in the order p
InOrder(d, p) == [i \in 1..Len(d) |-> d[p[i]]]

InitOrder ==
  /\ \E d \in {SeriesScenario, SeriesCents} : \E p \in Orders(Len(d)) : data = InOrder(d, p)
  /\ marginSettings = MarginOf(25, 14)
  /\ \E m \in {"none", "weekly", "monthly"} : settings = SettingsOf(FInt(400), m, FRat(3, 10))
  /\ env = [tz |-> 0, evaluated |-> GridSize]
  /\ pc = "start"
  /\ targetMROAS = None
  /\ sortedData = None
  /\ fit = None
  /\ maxSearchSpend = None
  /\ peak = None
  /\ results = None
  /\ asinGroups = None
  /\ entries = None
  /\ cursor = None
  /\ out = None
  /\ mode = None
  /\ rawData = None
  /\ calculating = None
  /\ shown = None
  /\ search = None

SpecOrder == InitOrder /\ [][NextSingle]_vars

\* ------------------------------------------------------------------------
\* findOptimalSpend on its own (part_000 lines 163-224)
\* ------------------------------------------------------------------------
\* curves of the grid's shapes for observed spends up to 1000 and ad revenue up
\* to 3600: alpha = 1.1 * 3600, K = 0.25 * 1000
OptimizerCurves == {HillParams(FInt(3960), gammas[g], FInt(250)) : g \in 1..Len(gammas)}

\* the bounds autoBound returns for these curves: its start 2 * 1000, two of
\* its expansions, and its ceiling 50 * 1000
OptimizerBounds == {FInt(2000), FInt(3600), FInt(6480), FInt(50000)}

\* targets of the contribution margins 5%, 10% and 20%
OptimizerTargets == {FRat(100, 5), FRat(100, 10), FRat(100, 20)}

InitOptimizer ==
  /\ data = None
  /\ marginSettings = None
  /\ settings = None
  /\ env = None
  /\ pc = "bounded"
  /\ targetMROAS \in OptimizerTargets
  /\ sortedData = None
  /\ \E params \in OptimizerCurves :
        fit = [params |-> params, currentFactor |-> FOne, spend |-> <<FInt(1000)>>]
  /\ maxSearchSpend \in OptimizerBounds
  /\ peak = None
  /\ results = None
  /\ asinGroups = None
  /\ entries = None
  /\ cursor = None
  /\ out = None
  /\ mode = None
  /\ rawData = None
  /\ calculating = None
  /\ shown = None
  /\ search = None

NextOptimizer ==
  \/ FindPeak
  \/ FindRoot

SpecOptimizer == InitOptimizer /\ [][NextOptimizer]_vars

\* ------------------------------------------------------------------------
\* findOptimalSpend with its bisection step by step (part_000 lines 186-224)
\* ------------------------------------------------------------------------
\* search holds low, high and the loop counter i; for the properties it also
\* keeps the bracket before the last step (before).
BisectUnchanged ==
  UNCHANGED <<mode, rawData, panel, inputs, targetMROAS, singleLocals, peak,
              portfolioLocals, out>>

\* the bisection begun at spend 0
BisectBeginFromZero ==
  /\ pc = "peaked"
  /\ IF FLt(peak[2], targetMROAS)
     THEN /\ results' = infeasibleResult(peak[2])
          /\ pc' = "optimized"
          /\ search' = search
     ELSE /\ search' = [low |-> FZero, high |-> maxSearchSpend, i |-> 0,
                        before |-> <<FZero, maxSearchSpend>>]
          /\ pc' = "bisecting"
          /\ results' = results
  /\ BisectUnchanged

\* lines 186-200: the feasibility check, low, high
BisectBegin ==
  /\ pc = "peaked"
  /\ IF FLt(peak[2], targetMROAS)
     THEN /\ results' = infeasibleResult(peak[2])
          /\ pc' = "optimized"
          /\ search' = search
     ELSE /\ search' = [low |-> peak[1], high |-> maxSearchSpend, i |-> 0,
                        before |-> <<peak[1], maxSearchSpend>>]
          /\ pc' = "bisecting"
          /\ results' = results
  /\ BisectUnchanged

\* the step with its two branches exchanged
BisectStepExchanged ==
  /\ pc = "bisecting"
  /\ search.i < iterations
  /\ LET mid   == FDiv(FAdd(search.low, search.high), FInt(2))
         mroas == marginalROAS(mid, fit.params, fit.currentFactor)
     IN search' = [low |-> IF FGe(mroas, targetMROAS) THEN search.low ELSE mid,
                   high |-> IF FGe(mroas, targetMROAS) THEN mid ELSE search.high,
                   i |-> search.i + 1,
                   before |-> <<search.low, search.high>>]
  /\ UNCHANGED <<pc, results>>
  /\ BisectUnchanged

\* lines 202-211: one pass of the loop
BisectStep ==
  /\ pc = "bisecting"
  /\ search.i < iterations
  /\ LET mid   == FDiv(FAdd(search.low, search.high), FInt(2))
         mroas == marginalROAS(mid, fit.params, fit.currentFactor)
     IN search' = [low |-> IF FGe(mroas, targetMROAS) THEN mid ELSE search.low,
                   high |-> IF FGe(mroas, targetMROAS) THEN search.high ELSE mid,
                   i |-> search.i + 1,
                   before |-> <<search.low, search.high>>]
  /\ UNCHANGED <<pc, results>>
  /\ BisectUnchanged

\* lines 213-223
BisectReturn ==
  /\ pc = "bisecting"
  /\ search.i = iterations
  /\ results' = resultAt(search.low, fit.params, fit.currentFactor)
  /\ pc' = "optimized"
  /\ search' = search
  /\ BisectUnchanged

NextBisect ==
  \/ FindPeak
  \/ BisectBegin
  \/ BisectStep
  \/ BisectReturn

SpecBisect == InitOptimizer /\ [][NextBisect]_vars

\* ------------------------------------------------------------------------
\* Inputs of optimizePortfolio
\* ------------------------------------------------------------------------
\* a portfolio observation without carried margins
Row(asin, day, spend, ad_sales, total_sales) ==
  Obs(asin, <<2025, 8, day>>, FInt(spend), FInt(ad_sales), total_sales, Undef, Undef)

\* a portfolio observation carrying its own margins
RowWith(asin, day, spend, ad_sales, gross_margin, required_net) ==
  Obs(asin, <<2025, 8, day>>, FInt(spend), FInt(ad_sales), Undef,
      FInt(gross_margin), FInt(required_net))

\* The observations of one entity, in input order; the dates are out of order.
Block(asin, kind) ==
  CASE kind = "two" ->
         <<Row(asin, 2, 120, 1000, Undef), Row(asin, 1, 100, 900, Undef)>>
    [] kind = "five" ->
         <<Row(asin, 3, 500, 3300, FInt(6000)), Row(asin, 1, 300, 2600, FInt(5000)),
           Row(asin, 2, 400, 3000, Undef), Row(asin, 5, 450, 3150, FInt(6300)),
           Row(asin, 4, 350, 2800, FZero)>>
    [] kind = "carriedZero" ->
         \* the earliest observation carries gross margin 30 and required net 0
         <<Row(asin, 3, 500, 3300, Undef), RowWith(asin, 1, 300, 2600, 30, 0),
           Row(asin, 2, 400, 3000, Undef)>>
    [] kind = "carried" ->
         \* the earliest observation carries 20 and 10, a later one 50 and 10
         <<RowWith(asin, 3, 500, 3300, 50, 10), RowWith(asin, 1, 300, 2600, 20, 10),
           Row(asin, 2, 400, 3000, Undef)>>
    [] kind = "lossy" ->
         \* the earliest observation carries 10 and 20
         <<Row(asin, 3, 500, 3300, Undef), RowWith(asin, 1, 300, 2600, 10, 20),
           Row(asin, 2, 400, 3000, Undef)>>
    [] kind = "undated" ->
         \* the second observation has no date
         <<Row(asin, 3, 500, 3300, Undef),
           Obs(asin, Undef, FInt(300), FInt(2600), Undef, Undef, Undef),
           Row(asin, 2, 400, 3000, Undef)>>
    [] kind = "recovering" ->
         \* the latest observation has the lowest spend; every observation
         \* supplies its total revenue
         <<Row(asin, 3, 100, 1200, FInt(2000)), Row(asin, 1, 300, 2600, FInt(5000)),
           Row(asin, 2, 500, 3300, FInt(6000))>>
    [] kind = "thin" ->
         \* the earliest observation carries 20 and 19, a margin of 1%; every
         \* observation supplies a total revenue of 0
         <<Obs(asin, <<2025, 8, 3>>, FInt(500), FInt(3300), FZero, Undef, Undef),
           Obs(asin, <<2025, 8, 1>>, FInt(300), FInt(2600), FZero, FInt(20), FInt(19)),
           Obs(asin, <<2025, 8, 2>>, FInt(400), FInt(3000), FZero, Undef, Undef)>>

\* two entities: the first observation of the one, the observations of the
\* other, the rest of the one
Portfolio(one, other) == <<one[1]>> \o other \o Tail(one)

\* the ids of the entities; the fourth is a missing id
PortfolioIds == <<IdB01, Id7, Id12, Undef, IdConstructor>>

KindPairs ==
  <<<<"two", "five">>, <<"five", "two">>, <<"carriedZero", "two">>,
    <<"carried", "undated">>, <<"lossy", "two">>, <<"undated", "five">>,
    <<"two", "lossy">>, <<"two", "two">>, <<"recovering", "thin">>>>

\* the portfolio of the entities a and b with the observations of the k-th pair
PortfolioOf(a, b, k) ==
  Portfolio(Block(PortfolioIds[a], KindPairs[k][1]),
            Block(PortfolioIds[b], KindPairs[k][2]))

\* ------------------------------------------------------------------------
\* optimizePortfolio, step by step (part_000 lines 274-381)
\* ------------------------------------------------------------------------
Init ==
  /\ \E a \in 1..Len(PortfolioIds), b \in 1..Len(PortfolioIds), k \in 1..Len(KindPairs) :
        a # b /\ data = PortfolioOf(a, b, k)
  /\ marginSettings = MarginOf(25, 14)
  /\ settings = SettingsOf(FZero, "none", FRat(3, 10))
  /\ env \in Envs
  /\ pc = "grouping"
  /\ targetMROAS = None
  /\ sortedData = None
  /\ fit = None
  /\ maxSearchSpend = None
  /\ peak = None
  /\ results = None
  /\ asinGroups = <<>>
  /\ entries = None
  /\ cursor = 1
  /\ out = None
  /\ mode = None
  /\ rawData = None
  /\ calculating = None
  /\ shown = None
  /\ search = None

\* lines 282-288, for one row; the TypeError of line 287 is outside the try
\* of line 294 and ends the call
GroupRow ==
  /\ pc = "grouping"
  /\ cursor <= Len(data)
  /\ LET row  == data[cursor]
         asin == keyOf(row)
     IN IF HasOwn(asinGroups, asin)
        THEN /\ asinGroups' = PushRow(asinGroups, asin, row)
             /\ cursor' = cursor + 1
             /\ UNCHANGED <<pc, out>>
        ELSE IF asin \in ProtoKeys
        THEN /\ out' = Threw("asinGroups[asin].push is not a function")
             /\ pc' = "rejected"
             /\ UNCHANGED <<asinGroups, cursor>>
        ELSE /\ asinGroups' = Append(asinGroups, [key |-> asin, rows |-> <<row>>])
             /\ cursor' = cursor + 1
             /\ UNCHANGED <<pc, out>>
  /\ UNCHANGED <<app, inputs, targetMROAS, singleLocals, peak, results, entries>>

\* lines 290-293: the loop over the entries begins
EnterLoop ==
  /\ pc = "grouping"
  /\ cursor > Len(data)
  /\ results' = <<>>
  /\ entries' = ObjectEntries(asinGroups)
  /\ cursor' = 1
  /\ pc' = "looping"
  /\ UNCHANGED <<app, inputs, targetMROAS, singleLocals, peak, asinGroups, out>>

\* lines 293-378, for one entry
ProcessGroup ==
  /\ pc = "looping"
  /\ cursor <= Len(entries)
  /\ results' = Append(results,
                       portfolioRow(entries[cursor].key, entries[cursor].rows,
                                    marginSettings, settings, env))
  /\ cursor' = cursor + 1
  /\ UNCHANGED <<app, inputs, pc, targetMROAS, singleLocals, peak, asinGroups, entries, out>>

\* line 380
ReturnResults ==
  /\ pc = "looping"
  /\ cursor > Len(entries)
  /\ out' = Returned(results)
  /\ pc' = "returned"
  /\ UNCHANGED <<app, inputs, targetMROAS, singleLocals, peak, results, portfolioLocals>>

Next ==
  \/ GroupRow
  \/ EnterLoop
  \/ ProcessGroup
  \/ ReturnResults

Spec == Init /\ [][Next]_vars

\* ------------------------------------------------------------------------
\* Runs of both optimizers under different run settings
\* ------------------------------------------------------------------------
\* the settings of the panel that only report: currentSpend and maxSpend
ReportSettings ==
  {SettingsOf(c, "weekly", FRat(3, 10)) : c \in {FZero, FInt(400)}}
  \cup {[SettingsOf(c, "weekly", FRat(3, 10)) EXCEPT !.maxSpend = FInt(100)] :
           c \in {FZero, FInt(400)}}

InitSettings ==
  /\ \/ /\ data \in {SeriesScenario, SeriesCents}
        /\ pc = "start"
        /\ asinGroups = None
        /\ cursor = None
     \/ /\ \E k \in {2, 4, 9} : data = PortfolioOf(1, 2, k)
        /\ pc = "grouping"
        /\ asinGroups = <<>>
        /\ cursor = 1
  /\ marginSettings = MarginOf(25, 14)
  /\ settings \in ReportSettings
  /\ env = [tz |-> 0, evaluated |-> GridSize]
  /\ targetMROAS = None
  /\ sortedData = None
  /\ fit = None
  /\ maxSearchSpend = None
  /\ peak = None
  /\ results = None
  /\ entries = None
  /\ out = None
  /\ mode = None
  /\ rawData = None
  /\ calculating = None
  /\ shown = None
  /\ search = None

NextSettings ==
  \/ NextSingle
  \/ Next

SpecSettings == InitSettings /\ [][NextSettings]_vars

\* ------------------------------------------------------------------------
\* runOptimization of the settings panel (SettingsPanel.tsx lines 49-84)
\* within the page (ROASOptimizer.tsx), the optimizers running step by step
\* ------------------------------------------------------------------------
\* the records DataUpload can hand to the page: two days, three days, two
\* products, and two products of which one is named 'constructor'
PanelData ==
  {SeriesShort, SeriesScenario, PortfolioOf(1, 2, 1), PortfolioOf(1, 5, 1)}

InitPanel ==
  /\ mode = "single"
  /\ data = <<>>
  /\ rawData = <<>>
  /\ calculating = FALSE
  /\ shown = NothingShown
  /\ search = None
  /\ marginSettings = InitialMarginSettings
  /\ settings = SettingsOf(FZero, "none", FRat(3, 10))
  /\ env = [tz |-> 0, evaluated |-> GridSize]
  /\ pc = "idle"
  /\ targetMROAS = None
  /\ sortedData = None
  /\ fit = None
  /\ maxSearchSpend = None
  /\ peak = None
  /\ results = None
  /\ asinGroups = None
  /\ entries = None
  /\ cursor = None
  /\ out = None

\* the locals of a call that is not running
NoCall ==
  /\ targetMROAS' = None
  /\ sortedData' = None
  /\ fit' = None
  /\ maxSearchSpend' = None
  /\ peak' = None
  /\ results' = None
  /\ asinGroups' = None
  /\ entries' = None
  /\ cursor' = None
  /\ out' = None

\* onDataChange = setData (ROASOptimizer.tsx line 112, DataUpload.tsx line 160)
SetData ==
  /\ pc = "idle"
  /\ data' \in PanelData
  /\ UNCHANGED <<app, marginSettings, settings, env, pc, targetMROAS, singleLocals,
                 peak, results, portfolioLocals, out>>

\* onSettingsChange = updateMarginSettings (ROASOptimizer.tsx lines 91-97, 123):
\* the required net margin becomes 14 or 25
UpdateMargin ==
  /\ pc = "idle"
  /\ \E v \in {FInt(14), FInt(25)} :
        marginSettings' = updateMarginSettings(marginSettings, "requiredNet", v)
  /\ UNCHANGED <<app, data, settings, env, pc, targetMROAS, singleLocals, peak,
                 results, portfolioLocals, out>>

\* lines 50-53, from the click on a button that is enabled (lines 185, 194)
Begin ==
  /\ pc = "idle"
  /\ ~calculating
  /\ Len(data) # 0
  /\ shown' = [shown EXCEPT !.error = None]
  /\ calculating' = TRUE
  /\ pc' = "begun"
  /\ UNCHANGED <<mode, rawData, search, inputs, targetMROAS, singleLocals, peak,
                 results, portfolioLocals, out>>

\* lines 55-69: the message of the check that fails, if one does
refusalOfRun(d, margin, m) ==
  IF Len(d) = 0 THEN "Please provide data first"
  ELSE IF FLe(margin.contributionMargin, FZero)
  THEN "Contribution margin must be positive"
  ELSE IF m = "single" /\ Len(d) < 3
  THEN "At least 3 data points required for single ASIN optimization"
  ELSE None

\* lines 55-69 with a check that fails, and lines 81-83
Refuse ==
  /\ pc = "begun"
  /\ refusalOfRun(data, marginSettings, mode) # None
  /\ shown' = [shown EXCEPT !.error = refusalOfRun(data, marginSettings, mode)]
  /\ calculating' = FALSE
  /\ pc' = "idle"
  /\ UNCHANGED <<mode, rawData, search, inputs, targetMROAS, singleLocals, peak,
                 results, portfolioLocals, out>>

\* lines 55-75 with every check passed: the optimizer of the mode is called
Hand ==
  /\ pc = "begun"
  /\ refusalOfRun(data, marginSettings, mode) = None
  /\ pc' = IF mode = "single" THEN "start" ELSE "grouping"
  /\ asinGroups' = IF mode = "single" THEN None ELSE <<>>
  /\ cursor' = IF mode = "single" THEN None ELSE 1
  /\ UNCHANGED <<app, inputs, targetMROAS, singleLocals, peak, results, entries, out>>

\* lines 71-77 and 81-83: the call resolved
Resolve ==
  /\ pc \in {"done", "returned"}
  /\ shown' = IF pc = "done"
               THEN [shown EXCEPT !.results = out.value]
               ELSE [shown EXCEPT !.portfolioResults = out.value]
  /\ calculating' = FALSE
  /\ pc' = "idle"
  /\ NoCall
  /\ UNCHANGED <<mode, rawData, search, inputs>>

\* lines 78-83, had the handler no finally block
CatchWithoutFinally ==
  /\ pc \in {"threw", "rejected"}
  /\ shown' = [shown EXCEPT !.error = "Optimization error: " \o out.message]
  /\ pc' = "idle"
  /\ NoCall
  /\ UNCHANGED <<mode, rawData, calculating, search, inputs>>

\* lines 78-83: the call rejected
Catch ==
  /\ pc \in {"threw", "rejected"}
  /\ shown' = [shown EXCEPT !.error = "Optimization error: " \o out.message]
  /\ calculating' = FALSE
  /\ pc' = "idle"
  /\ NoCall
  /\ UNCHANGED <<mode, rawData, search, inputs>>

NextPanel ==
  \/ SetData
  \/ SetMode
  \/ UpdateMargin
  \/ ClearAll
  \/ Begin
  \/ Refuse
  \/ Hand
  \/ NextSingle
  \/ Next
  \/ Resolve
  \/ Catch

SpecPanel == InitPanel /\ [][NextPanel]_vars

\* ------------------------------------------------------------------------
\* Properties of optimizeSingleASIN and findOptimalSpend
\* ------------------------------------------------------------------------
\* the call has returned a result
SingleDone == pc = "done"
\* findOptimalSpend has returned
Optimized == pc \in {"optimized", "done"}

\* C2: optimizeSingle returns no result when it is given fewer than 3
\* observations or a contribution margin that is zero or negative.
C2_ValidatesInputs ==
  (Len(data) < 3 \/ FLe(marginSettings.contributionMargin, FZero)) => ~SingleDone

ZeroWhenInfeasible(r) ==
  ~r.feasible =>
     r.optimalSpend = FZero /\ r.expectedRevenue = FZero /\ r.totalRoas = FZero

\* C6: a result with feasible = false, of findOptimalSpend or of
\* optimizeSingleASIN (baseline fields added or not), has optimalSpend = 0,
\* expectedRevenue = 0 and totalRoas = 0.
C6_InfeasibleIsZero ==
  /\ Optimized => ZeroWhenInfeasible(results)
  /\ SingleDone => ZeroWhenInfeasible(out.value)

\* C6 witness: an infeasible result returned with the baseline fields added,
\* for a positive margin and a series with ad revenue
C6_Witness ==
  /\ SingleDone
  /\ ~out.value.feasible
  /\ FGt(settings.currentSpend, FZero)
  /\ FGt(marginSettings.contributionMargin, FZero)
  /\ FGt(out.value.mRoas, FZero)
  /\ out.value.deltaSpend = FNeg(settings.currentSpend)

\* the spend halfway between samples i and i + 1 (line 178)
Between(i) == FMul(FDiv(FInt(2 * i + 1), FInt(2 * samples)), maxSearchSpend)

Epsilon == FRat(1, 100)

\* C8: when findOptimalSpend returns feasible = true, for a positive margin and
\* the search bound autoBound produced, the marginal return at the returned
\* optimalSpend is within a small epsilon of the target.
C8_FeasibleMeetsTarget ==
  (Optimized /\ results.feasible /\ FGt(marginSettings.contributionMargin, FZero)) =>
     FLe(FAbs(FSub(results.mRoas, targetMROAS)), FMul(Epsilon, targetMROAS))

GroupKeys(d) == {keyOf(d[i]) : i \in 1..Len(d)}

\* the observations of the group key, in input order
OwnRows(d, key) ==
  LET own(r) == keyOf(r) = key
  IN SelectSeq(d, own)

\* where the group key is discovered: the position of its first observation
FirstIndex(d, key) ==
  CHOOSE i \in 1..Len(d) :
    keyOf(d[i]) = key /\ \A j \in 1..(i - 1) : keyOf(d[j]) # key

\* the call has ended, by returning or by throwing
PortfolioEnded == pc \in {"returned", "rejected"}

\* the rows the caller gets
RowsOut == IF pc = "returned" THEN out.value ELSE <<>>

\* C1: optimizePortfolio never fails at the batch level; it returns exactly
\* one row per entity group, and a group whose pipeline fails has a row with
\* action 'Error: <message>' and feasible = false.
C1_BatchAlwaysCompletes ==
  /\ pc # "rejected"
  /\ pc = "returned" =>
       /\ Len(out.value) = Cardinality(GroupKeys(data))
       /\ \A key \in GroupKeys(data) :
             \E i \in 1..Len(out.value) :
                /\ out.value[i].asin = key
                /\ (Len(OwnRows(data, key)) >= 3 /\ SortThrows(OwnRows(data, key))) =>
                      /\ out.value[i].action = "Error: " \o NoLocaleCompare
                      /\ ~out.value[i].feasible

\* C3: the rows are in group-discovery order: the row of the id whose first
\* observation is earlier in the input comes earlier in the result.
C3_RowsInDiscoveryOrder ==
  pc = "returned" =>
     \A i, j \in 1..Len(out.value) :
        i < j => FirstIndex(data, out.value[i].asin) < FirstIndex(data, out.value[j].asin)

\* C4: every group with fewer than 3 observations yields an insufficient-data
\* row with feasible = false and no optimalSpend, whatever the other groups
\* are, and the result has one row per group.
C4_ShortGroupsGetInsufficientRow ==
  PortfolioEnded =>
     /\ Len(RowsOut) = Cardinality(GroupKeys(data))
     /\ \A key \in GroupKeys(data) :
           Len(OwnRows(data, key)) < 3 =>
              \E i \in 1..Len(RowsOut) :
                 /\ RowsOut[i].asin = key
                 /\ RowsOut[i].action = "Insufficient data (< 3 points)"
                 /\ ~RowsOut[i].feasible
                 /\ "optimalSpend" \notin DOMAIN RowsOut[i]

\* C5: the row of an entity depends only on its own observations, the margin
\* configuration and the settings: it is the row the entity gets from its own
\* observations, whatever the observations of the other entities are.
C5_RowDependsOnOwnObservations ==
  PortfolioEnded =>
     \A key \in GroupKeys(data) :
        \E i \in 1..Len(RowsOut) :
           RowsOut[i] = portfolioRow(key, OwnRows(data, key), marginSettings,
                                     settings, env)

\* the contribution margin C10 states for a group: that of its earliest
\* observation when it carries both values, 0 included, else the global one
StatedMargin(rows) ==
  LET first == SortByDate(rows)[1]
  IN IF first.gross_margin # Undef /\ first.required_net # Undef
     THEN FDiv(FSub(first.gross_margin, first.required_net), FInt(100))
     ELSE FDiv(marginSettings.contributionMargin, FInt(100))

\* C10: the contribution margin used for an entity is (grossMargin -
\* requiredNet) / 100 of its earliest-dated observation when that observation
\* carries both values, a carried 0 included, and the global margin otherwise.
C10_MarginOfEarliestObservation ==
  pc = "returned" =>
     \A i \in 1..Len(out.value) :
        LET rows == OwnRows(data, out.value[i].asin)
        IN (Len(rows) >= 3 /\ ~SortThrows(rows)) =>
              IF FLe(StatedMargin(rows), FZero)
              THEN out.value[i].action = "Non-positive contribution margin"
              ELSE /\ "contributionMargin" \in DOMAIN out.value[i]
                   /\ out.value[i].contributionMargin =
                        toFixed(FMul(StatedMargin(rows), FInt(100)), 1)

\* ------------------------------------------------------------------------
\* Properties of the rows of optimizePortfolio
\* ------------------------------------------------------------------------
\* a row with a recommendation: neither insufficient data, nor a non-positive
\* margin, nor an error
Successful(row) == "optimalSpend" \in DOMAIN row

\* the position of the latest-dated observation of rows, all dated
LatestIndex(rows) ==
  CHOOSE i \in 1..Len(rows) : \A j \in 1..Len(rows) : ~DateLess(rows[i].date, rows[j].date)

\* what optimizeSingleASIN returns for the observations rows of one entity
OwnResult(rows) ==
  optimizeSingleRun(SortByDate(rows),
                    asinMarginsOf(marginSettings,
                                  cmOf(SortByDate(rows)[1], marginSettings)),
                    settings, env).value

\* the action C11 states for a result and a current spend
StatedAction(result, currentSpend) ==
  IF ~result.feasible THEN "Pause (no feasible solution)"
  ELSE IF FGt(result.optimalSpend, currentSpend) THEN "Increase"
  ELSE "Decrease"

\* C11: in every successful row the action is 'Increase' exactly when the
\* result is feasible and optimalSpend > currentSpend, 'Decrease' exactly when
\* it is feasible and optimalSpend <= currentSpend, and 'Pause' exactly when it
\* is infeasible; currentSpend is the spend of the latest-dated observation of
\* the entity.
C11_ActionClassifiesResult ==
  pc = "returned" =>
     \A i \in 1..Len(out.value) :
        Successful(out.value[i]) =>
           /\ out.value[i].action =
                StatedAction(OwnResult(OwnRows(data, out.value[i].asin)),
                             OwnRows(data, out.value[i].asin)
                               [LatestIndex(OwnRows(data, out.value[i].asin))].spend)
           /\ out.value[i].feasible = (out.value[i].action # "Pause (no feasible solution)")

\* C11 witness: a result with an 'Increase' row, whose entity would get
\* 'Decrease' against its earliest spend, and a 'Pause' row
C11_Witness ==
  /\ pc = "returned"
  /\ \E i, j \in 1..Len(out.value) :
        /\ Successful(out.value[i])
        /\ out.value[i].action = "Increase"
        /\ out.value[i].optimalSpend > out.value[i].currentSpend
        /\ out.value[i].optimalSpend <
             FRound(SortByDate(OwnRows(data, out.value[i].asin))[1].spend)
        /\ Successful(out.value[j])
        /\ out.value[j].action = "Pause (no feasible solution)"
        /\ out.value[j].optimalSpend = 0

\* the organic share C12 states for the observations rows: both sums range
\* over the observations that supply total_sales, in date order
StatedOrganicShare(rows) ==
  LET supplied(d)   == d.total_sales # Undef
      withTotal     == SelectSeq(SortByDate(rows), supplied)
      totalSalesSum == FSum([i \in 1..Len(withTotal) |-> withTotal[i].total_sales])
      adSalesSum    == FSum([i \in 1..Len(withTotal) |-> withTotal[i].ad_sales])
  IN IF Len(withTotal) = 0 \/ totalSalesSum = FZero
     THEN Undef
     ELSE FMul(FDiv(FSub(totalSalesSum, adSalesSum), totalSalesSum), FInt(100))

\* the organicShare field of a row for a share: one decimal, or the dash
ShownShare(share) == IF share = Undef THEN "-" ELSE toFixed(share, 1)

\* C12: the organic share of a row is (sum of totalRevenue - sum of
\* adRevenue) / sum of totalRevenue * 100, both sums over the observations
\* that supply totalRevenue (a supplied 0 counts), and it is unreported when
\* that totalRevenue sum is zero or no observation supplies it.
C12_OrganicShareOverSuppliedRows ==
  pc = "returned" =>
     \A i \in 1..Len(out.value) :
        Successful(out.value[i]) =>
           out.value[i].organicShare =
             ShownShare(StatedOrganicShare(OwnRows(data, out.value[i].asin)))

\* ------------------------------------------------------------------------
\* Properties of repeated runs
\* ------------------------------------------------------------------------
\* C13: optimizeSingle is deterministic: a run on the same observations,
\* margin configuration and run settings on any other host returns the same
\* result, whatever that host's time zone, provided the deadline of its curve
\* fit fires at the same point.
C13_SameInputsSameResult ==
  SingleDone =>
     \A other \in HostEnvs :
        other.evaluated = env.evaluated =>
           optimizeSingleRun(data, marginSettings, settings, other) = out

Near(a, b) ==
  \/ a = b
  \/ FLe(FAbs(FSub(a, b)), FMul(FAbs(b), <<MantLo, 3 - 2 * MantBits>>))

\* C15: in every state of the margin configuration reachable from the initial
\* state by gross-margin and required-net edits, contributionMargin =
\* grossMargin - requiredNet, and requiredMROAS = 1 / (contributionMargin /
\* 100), the contribution margin being grossMargin - requiredNet, when it is
\* positive, and the 'not optimizable' value 0 otherwise.
C15_MarginsConsistent ==
  pc = "editing" =>
     /\ Near(marginSettings.contributionMargin,
             FSub(marginSettings.grossMargin, marginSettings.requiredNet))
     /\ IF FGt(FSub(marginSettings.grossMargin, marginSettings.requiredNet), FZero)
        THEN marginSettings.requiredMROAS =
               FDiv(FOne, FDiv(FSub(marginSettings.grossMargin,
                                    marginSettings.requiredNet), FInt(100)))
        ELSE marginSettings.requiredMROAS = FZero

\* ------------------------------------------------------------------------
\* Properties of ingestion and of the page
\* ------------------------------------------------------------------------
\* the key of a raw row as the row states it: its asin without the blanks
\* around it (portfolio mode only) and the calendar date its date cell names
StatedKey(row, keyMode) ==
  <<IF keyMode = "portfolio" THEN trimmedAsin(row) ELSE <<>>, row.date.ymd>>

\* the key of an observation
KeyOfRecord(record, keyMode) ==
  <<IF keyMode = "portfolio" /\ record.asin # Undef THEN record.asin ELSE <<>>, record.date>>

\* the cells of one column of the raw rows with the key, as numbers
CellsWithKey(rows, key, keyMode, column) ==
  LET keyed(r) == StatedKey(r, keyMode) = key
      own      == SelectSeq(rows, keyed)
  IN [i \in 1..Len(own) |-> toNumber(own[i][column])]

\* C16: one ingestion pass outputs exactly one record per key, (asin, date) in
\* portfolio mode and date in single mode; each record's spend, ad_sales and
\* total_sales is the sum of those fields over the input rows with that key;
\* the output is sorted by date ascending.
C16_OneRecordPerKeySummed ==
  pc = "ingested" =>
     /\ \A i \in 1..Len(rawData) :
           \E j \in 1..Len(data) : KeyOfRecord(data[j], mode) = StatedKey(rawData[i], mode)
     /\ \A j, k \in 1..Len(data) :
           j < k => /\ KeyOfRecord(data[j], mode) # KeyOfRecord(data[k], mode)
                    /\ ~DateLess(data[k].date, data[j].date)
     /\ \A j \in 1..Len(data) :
           /\ \E i \in 1..Len(rawData) :
                 StatedKey(rawData[i], mode) = KeyOfRecord(data[j], mode)
           /\ data[j].spend =
                FSum(CellsWithKey(rawData, KeyOfRecord(data[j], mode), mode, "spend"))
           /\ data[j].ad_sales =
                FSum(CellsWithKey(rawData, KeyOfRecord(data[j], mode), mode, "ad_sales"))
           /\ data[j].total_sales =
                FSum(CellsWithKey(rawData, KeyOfRecord(data[j], mode), mode, "total_sales"))

\* the observations d are unique by the key of keyMode
UniqueByKey(d, keyMode) ==
  \A j, k \in 1..Len(d) :
     j < k => KeyOfRecord(d[j], keyMode) # KeyOfRecord(d[k], keyMode)

\* C17: in every state reachable by ingestions, mode changes and clear-all
\* operations, the observations a run hands to the optimizer are unique by the
\* key of the current mode.
C17_RunGetsUniqueKeys == pc = "running" => UniqueByKey(data, mode)

\* ------------------------------------------------------------------------
\* Properties of the recency weights
\* ------------------------------------------------------------------------
\* C18: with the recency setting at 0 every recency weight is the same.
C18_ZeroRecencyEqualWeights ==
  (pc = "weighed" /\ settings.recency = FZero) =>
     \A i, j \in 1..Len(out) : Near(out[i], out[j])

\* the parts of C19 that hold for every n: mean 1, weight i proportional to
\* (i / n)^(1 + 4 recencyFactor) (i counted from 1), and at recencyFactor = 0
\* the ramp 2 i / (n + 1), strictly increasing
WeightsAsStated(weights, recencyFactor) ==
  LET n        == Len(weights)
      exponent == FAdd(FOne, FMul(FInt(4), recencyFactor))
  IN /\ Near(FDiv(FSum(weights), FInt(n)), FOne)
     /\ \A i \in 1..n :
           Near(weights[i], FMul(weights[n], FPow(FDiv(FInt(i), FInt(n)), exponent)))
     /\ recencyFactor = FZero =>
           /\ \A i \in 1..n : Near(weights[i], FDiv(FInt(2 * i), FInt(n + 1)))
           /\ \A i \in 1..(n - 1) : FLt(weights[i], weights[i + 1])

\* two of the weights differ
NotUniform(weights) == \E i, j \in 1..Len(weights) : weights[i] # weights[j]

SSETable(spend, revenue, weights) ==
  [k \in 1..GridSize |->
     SSE(Len(spend), spend, revenue, weights,
         GridParams(k - 1, FMaxSeq(revenue, FInf(-1)), FMaxSeq(spend, FOne)))]

\* params is the first combination of the grid whose sum in table is the least
FirstMinimum(params, table, maxRevenue, maxSpend) ==
  \E k \in 1..GridSize :
     /\ params = GridParams(k - 1, maxRevenue, maxSpend)
     /\ \A j \in 1..GridSize : FLe(table[k], table[j])
     /\ \A j \in 1..(k - 1) : FGt(table[j], table[k])

\* the revenue the fit of sortedData is given (lines 243-247)
FittedRevenue ==
  revenueArray(sortedData,
               adjustForSeasonality(sortedData, settings.seasonality, env.tz).adjusted)

\* C20: when the deadline does not fire, fitHillModel returns the combination
\* of the 75-point grid with the minimum weighted sum of squared residuals, and
\* among combinations with exactly equal minimum the one evaluated first in the
\* order alpha (outer), gamma (middle), K (inner).
C20_FitReturnsFirstMinimum ==
  (pc = "fitted" /\ env.evaluated = GridSize) =>
     FirstMinimum(fit.params,
                  SSETable(spendArray(sortedData), FittedRevenue,
                           generateRecencyWeights(Len(sortedData), settings.recency)),
                  FMaxSeq(FittedRevenue, FInf(-1)),
                  FMaxSeq(spendArray(sortedData), FOne))

\* C20 witness: a fit in which every combination has the same sum (no revenue
\* at all) and the first combination of the grid is returned, and not the
\* combination bestParams starts from
C20_Witness ==
  /\ pc = "fitted"
  /\ env.evaluated = GridSize
  /\ data = SeriesZero
  /\ fit.params = GridParams(0, FZero, FInt(30))
  /\ fit.params # HillParams(FZero, gammas[3], FMul(KMultipliers[3], FInt(30)))

\* ------------------------------------------------------------------------
\* Properties of the deadline of the curve fit
\* ------------------------------------------------------------------------
\* the call is in its loops or has left them
Searching == pc \in {"innerCheck", "evaluating", "middleCheck", "outerCheck", "fitReturn",
                     "fitted"}

\* C21: once a deadline check of fitHillModel has seen the budget exceeded no
\* further combination is evaluated, the three loops exit (one check each at
\* most) and the call returns the best of the combinations evaluated before
\* that check; at most one evaluation begins in time and ends late.
C21_DeadlineStopsSearch ==
  Searching =>
     /\ search.observed <= 3
     /\ search.observed > 0 => pc \in {"middleCheck", "outerCheck", "fitReturn", "fitted"}
     /\ search.straddled <= 1
     /\ pc = "fitted" =>
          /\ search.observed > 0 \/ search.count = GridSize
          /\ fit.params = fitHillModel(search.spend, search.revenue, search.weights,
                                       search.count)

\* C21 witness: a call that returned after its deadline fired in the middle of
\* the grid, during an evaluation, with a better combination than the one it
\* began with
C21_Witness ==
  /\ pc = "fitted"
  /\ search.observed = 3
  /\ search.straddled = 1
  /\ search.count = 33
  /\ fit.params # GridParams(12, search.maxRevenue, search.maxSpend)

\* ------------------------------------------------------------------------
\* Properties of the curve fit on generated observations
\* ------------------------------------------------------------------------
\* every observation lies exactly on the curve of combination k of the grid
\* fitHillModel builds for these observations
GeneratedFrom(k, spend, revenue) ==
  \A i \in 1..Len(spend) :
     revenue[i] = hillY(spend[i], GridParams(k, FMaxSeq(revenue, FInf(-1)),
                                              FMaxSeq(spend, FOne)))

\* C22: given observations generated exactly from the curve at one combination
\* of the fitter's own grid, and the deadline not firing, fitHillModel returns
\* that exact combination, also when several combinations fit equally well.
C22_RecoversGeneratingCombination ==
  pc = "fitted" =>
     \A k \in 0..(GridSize - 1) :
        GeneratedFrom(k, fit.spend, FittedRevenue) =>
           fit.params = GridParams(k, FMaxSeq(FittedRevenue, FInf(-1)),
                                   FMaxSeq(fit.spend, FOne))

\* observations with revenue lie on no curve of the grid built from them
OnlyZeroRevenueIsGenerated ==
  pc = "fitted" =>
     \A k \in 0..(GridSize - 1) :
        GeneratedFrom(k, fit.spend, FittedRevenue) => FMaxSeq(FittedRevenue, FInf(-1)) = FZero

\* ------------------------------------------------------------------------
\* Properties of autoBound
\* ------------------------------------------------------------------------
\* hi after n multiplications by 1.8
RECURSIVE Expanded(_, _)
Expanded(start, n) == IF n = 0 THEN start ELSE FMul(Expanded(start, n - 1), FRat(18, 10))

\* the largest observed spend
MaxObservedSpend(X) == FMaxSeq(SubSeq(X, 2, Len(X)), X[1])

\* autoBound is in its loop or has returned, the expansion has taken at most
\* 32 steps of factor 1.8 from max(2 top, 4 K, 1), and the bound returned is
\* at most max(50 top, 20 K)
BoundWithin(top) ==
  pc \in {"expanding", "bounded"} =>
     /\ search.i <= expansions
     /\ search.start = FMax(FMax(FMul(FTwo, top), FMul(FInt(4), fit.params.K)), FOne)
     /\ search.hi = Expanded(search.start, search.i)
     /\ pc = "bounded" =>
          FLe(maxSearchSpend, FMax(FMul(FInt(50), top), FMul(FInt(20), fit.params.K)))

\* C23 as stated: autoBound ends after at most 32 expansion steps, each
\* multiplying hi by 1.8 from the start max(2 maxObservedSpend, 4 K, 1), and
\* its bound never exceeds max(50 maxObservedSpend, 20 K), also when the
\* target is unreachable.
C23_BoundFromObservedSpend == BoundWithin(MaxObservedSpend(fit.spend))

\* C23, amended: the same with max(maxObservedSpend, 1) in the place of
\* maxObservedSpend.
C23_BoundFromFlooredSpend == BoundWithin(FMax(MaxObservedSpend(fit.spend), FOne))

\* C23 witness: observed spends below one dollar, a return that stays above
\* the required one, and the bound 50 = 50 * max(0.5, 1) after 6 steps
C23_Witness ==
  /\ pc = "bounded"
  /\ MaxObservedSpend(fit.spend) = FRat(5, 10)
  /\ search.i = 6
  /\ maxSearchSpend = FInt(50)

\* C30: for every K >= 0 the bound b of autoBound satisfies 1 <= b <= ceiling,
\* and the marginal return at b is at most the required one or b is the
\* ceiling; the loop stops within 6 multiplications.
C30_BoundStopsBelowTargetOrAtCeiling ==
  /\ pc = "expanding" => search.i <= 6
  /\ pc = "bounded" =>
       /\ search.i <= 6
       /\ FGe(maxSearchSpend, FOne)
       /\ FLe(maxSearchSpend, search.hiMax)
       /\ \/ FLe(FMul(hillDY(maxSearchSpend, fit.params), fit.currentFactor), targetMROAS)
          \/ maxSearchSpend = search.hiMax

\* C30 witness: K = 0 and a bound below the ceiling where the marginal return
\* is at most the required one
C30_Witness ==
  /\ pc = "bounded"
  /\ fit.params.K = FZero
  /\ FLt(maxSearchSpend, search.hiMax)
  /\ FLe(FMul(hillDY(maxSearchSpend, fit.params), fit.currentFactor), targetMROAS)

\* ------------------------------------------------------------------------
\* Properties of the bisection
\* ------------------------------------------------------------------------
\* the bisection is under way or has returned a feasible result
Bisected == pc = "bisecting" \/ (pc = "optimized" /\ results.feasible)

\* the last step moved low to the midpoint when the marginal return there was
\* at least the target, and high to the midpoint otherwise
StepAsStated ==
  LET mid == FDiv(FAdd(search.before[1], search.before[2]), FInt(2))
  IN IF FGe(marginalROAS(mid, fit.params, fit.currentFactor), targetMROAS)
     THEN search.low = mid /\ search.high = search.before[2]
     ELSE search.low = search.before[1] /\ search.high = mid

\* a / 2^n
Halved(a, n) == IF a[1] = 0 THEN a ELSE <<a[1], a[2] - n>>

\* the distance from a > 0 to the next number above it
Spacing(a) == <<MantLo, a[2] - MantBits + 1>>

\* C24 as stated: each of the 60 bisection steps moves the lower bound to the
\* midpoint when the marginal return there is >= the target and the upper
\* bound otherwise, and after the 60 steps high - low is maxSearchSpend / 2^60.
C24_WidthIsBoundOver2To60 ==
  Bisected =>
     /\ search.i > 0 => StepAsStated
     /\ search.i = iterations =>
          FSub(search.high, search.low) = Halved(maxSearchSpend, iterations)

\* C24, amended: the steps as stated; the bracket begins as [peakSpend,
\* maxSearchSpend] and after the 60 steps high - low is at most the larger of
\* (maxSearchSpend - peakSpend) / 2^60 and the spacing of the numbers at high.
C24_WidthWithinHalvingsAndSpacing ==
  Bisected =>
     /\ search.i > 0 => StepAsStated
     /\ search.i = 0 => (search.low = peak[1] /\ search.high = maxSearchSpend)
     /\ search.i = iterations =>
          FLe(FSub(search.high, search.low),
              FMax(Halved(FSub(maxSearchSpend, peak[1]), iterations),
                   Spacing(search.high)))

\* C24 witness: a bisection that has taken its 60 steps, the last of which
\* left two different bounds
C24_Witness ==
  /\ pc = "bisecting"
  /\ search.i = iterations
  /\ FLt(search.low, search.high)
  /\ FGt(peak[1], FZero)

\* C25: throughout the bisection peakSpend <= low <= high <= maxSearchSpend and
\* the marginal return at low is >= the target; every feasible result has
\* peakSpend <= optimalSpend <= maxSearchSpend and mRoas >= target.
C25_BracketKeepsTarget ==
  /\ pc = "bisecting" =>
       /\ FLe(peak[1], search.low)
       /\ FLe(search.low, search.high)
       /\ FLe(search.high, maxSearchSpend)
       /\ FGe(marginalROAS(search.low, fit.params, fit.currentFactor), targetMROAS)
  /\ (pc = "optimized" /\ results.feasible) =>
       /\ FLe(peak[1], results.optimalSpend)
       /\ FLe(results.optimalSpend, maxSearchSpend)
       /\ FGe(results.mRoas, targetMROAS)

\* C25 witness: a feasible result strictly between the sampled peak and the
\* search bound
C25_Witness ==
  /\ pc = "optimized"
  /\ results.feasible
  /\ FLt(peak[1], results.optimalSpend)
  /\ FLt(results.optimalSpend, maxSearchSpend)

\* ------------------------------------------------------------------------
\* Properties of optimizeSingleASIN across runs
\* ------------------------------------------------------------------------
\* the observations carry dates, no two the same
DistinctDates(d) ==
  /\ \A i \in 1..Len(d) : d[i].date # Undef
  /\ \A i, j \in 1..Len(d) : d[i].date = d[j].date => i = j

\* C26: for observations with pairwise distinct dates, optimizeSingle returns
\* the identical result for every permutation of the input sequence.
C26_OrderOfInputIrrelevant ==
  (SingleDone /\ DistinctDates(data)) =>
     \A p \in Orders(Len(data)) :
        optimizeSingleRun(InOrder(data, p), marginSettings, settings, env) = out

\* C26 witness: a result for observations given out of date order
C26_Witness ==
  /\ SingleDone
  /\ DistinctDates(data)
  /\ sortedData # data
  /\ out.value.feasible

\* ------------------------------------------------------------------------
\* Properties of both optimizers across run settings
\* ------------------------------------------------------------------------
\* the five fields of a result that findOptimalSpend computed
Recommendation(r) ==
  <<r.optimalSpend, r.expectedRevenue, r.mRoas, r.totalRoas, r.feasible>>

\* the rows optimizePortfolio returns for the entries under other settings
RowsUnder(other) ==
  [i \in 1..Len(entries) |->
     portfolioRow(entries[i].key, entries[i].rows, marginSettings, other, env)]

\* C27: two runs that differ only in settings.currentSpend and
\* settings.maxSpend agree on the rows of optimizePortfolio and on
\* optimalSpend, expectedRevenue, mRoas, totalRoas and feasible of
\* optimizeSingle.
C27_ReportSettingsDoNotSteer ==
  /\ SingleDone =>
       \A other \in ReportSettings :
          Recommendation(optimizeSingleRun(data, marginSettings, other, env).value)
            = Recommendation(out.value)
  /\ pc = "returned" => \A other \in ReportSettings : RowsUnder(other) = out.value

\* C27 witness: a portfolio run that returned a row with a recommendation
\* under a current spend of 400 and a maximum spend of 100
C27_Witness ==
  /\ pc = "returned"
  /\ settings.currentSpend = FInt(400)
  /\ settings.maxSpend = FInt(100)
  /\ \E i \in 1..Len(out.value) :
        Successful(out.value[i]) /\ out.value[i].feasible /\ out.value[i].optimalSpend > 100

\* ------------------------------------------------------------------------
\* Properties of what fitHillModel returns
\* ------------------------------------------------------------------------
\* the 75 combinations of lines 109-111 for the arrays of the call
Grid ==
  {GridParams(k, search.maxRevenue, search.maxSpend) : k \in 0..(GridSize - 1)}

\* C29: fitHillModel returns a member of its grid of 75 combinations, also
\* when the deadline fires before any combination is evaluated or no
\* error compares below the initial bestSSE.
C29_FitReturnsGridMember ==
  pc = "fitted" => fit.params \in Grid

\* C29 witness: a call whose deadline fired at the first check, so that no
\* combination was evaluated and no error compared below bestSSE, and which
\* returned the initial bestParams
C29_Witness ==
  /\ pc = "fitted"
  /\ search.count = 0
  /\ search.best[2] = FInf(1)
  /\ fit.params = GridParams(12, search.maxRevenue, search.maxSpend)

\* ------------------------------------------------------------------------
\* Properties of runOptimization
\* ------------------------------------------------------------------------
\* the step that ends a run by a failed check or by an error of the optimizer
EndsInFailure == pc \in {"begun", "threw", "rejected"} /\ pc' = "idle"

\* a run is under way and its optimizer has not resolved
Unresolved == pc \notin {"idle", "done", "returned"}

\* C28: a run of the settings panel that ends by a failed check or by an
\* error thrown from the optimizer has invoked the error callback, has
\* replaced neither results nor portfolioResults, and leaves the
\* calculating flag, set at its start, at false.
C28_FailedRunReportsAndKeepsResults ==
  [][/\ Unresolved =>
          /\ calculating
          /\ shown'.results = shown.results
          /\ shown'.portfolioResults = shown.portfolioResults
     /\ EndsInFailure => shown'.error # None /\ ~calculating']_vars

\* C28 witness: the page at rest after a portfolio run that the optimizer
\* ended by throwing, still showing the rows of an earlier portfolio run
C28_Witness ==
  /\ pc = "idle"
  /\ ~calculating
  /\ mode = "portfolio"
  /\ shown.error = "Optimization error: asinGroups[asin].push is not a function"
  /\ Len(shown.portfolioResults) = 2

====
